---- MODULE Spec2Model ----
(***************************************************************************)
(* Empyrion-Helper: the Worker of backend.py (telnet session, player       *)
(* registry reconciliation, config files over FTP, scheduled messages)     *)
(* and the MainWindow handlers of main_app.py that drive it.               *)
(*                                                                         *)
(* Conventions.  Python None is the model value None.  Python list indexes *)
(* are 0-based; sequences here are 1-based, so slot i of the code is slot  *)
(* i+1 of the model.  datetime.now() is the variable now, in minutes.      *)
(***************************************************************************)
EXTENDS Integers, Sequences, FiniteSets, TLC

\* ------------------------------------------------------------------ bounds
\* Number of scheduled-message rows the window builds (5 in the program,
\* main_app.py:238); scaled down to keep the state space small.
NumSlots == 2
\* The clock runs from 0 to MaxTime in steps of ClockStep minutes.
MaxTime == 60
ClockStep == 30
\* Number of save_config_changes invocations followed.
MaxRuns == 2
\* Longest gents output, in lines, and longest section of a plys response,
\* in entries, that the parsers are applied to.
MaxLines == 3
MaxEntries == 2

\* timedelta(hours=h) is 60*h minutes.
MinutesPerHour == 60

\* Python None in a timestamp field (timestamps are numbers here).
None == -1

VARIABLES
    now,                  \* datetime.now(), minutes
    \* --- Worker: telnet session
    socket,               \* self.socket: "none" | "unconnected" | "open" | "closed"
    connected,            \* self.connected
    running,              \* self._running
    timer_active,         \* self.timer (player poll) is started
    message_timer_active, \* self.message_timer is started
    \* --- Worker: scheduled messages
    scheduled_messages,   \* self.scheduled_messages, a sequence of message dicts
    last_message_check,   \* self.last_message_check, slot index -> time
    messages_file,        \* scheduled_messages.json
    lastTick,             \* observation of the latest check_scheduled_messages
    awaiting,             \* slots (re)enabled or reloaded and not evaluated since
    \* --- Worker: player registry
    known_players,        \* self.known_players, id -> player dict
    db,                   \* table players of player_history.db, id -> row
    lastPoll,             \* observation of the latest poll cycle
    seen,                 \* ids loaded at session start or seen in a feed since
    \* --- config files over FTP
    remote,               \* the FTP server: directory -> (name -> content)
    ftp_host,             \* self.ftp_host (with self.ftp_user): "" when FTP is not configured
    remote_config_path,   \* self.remote_config_path
    all_config_data,      \* MainWindow.all_config_data
    config_changes_made,  \* MainWindow.config_changes_made
    ftp,                  \* the running save_config_changes, its position and log
    \* --- commands and entities
    io,                   \* observation of the latest use of the socket by a command or by stop
    exchange,             \* thread -> the send_command it is in ("idle" when in none)
    entities,             \* table entities of player_history.db, a sequence of rows
    parser                \* observation of the latest parse: function, input, output

sessVars   == <<socket, connected, running, timer_active, message_timer_active>>
schedVars  == <<scheduled_messages, last_message_check, messages_file, lastTick, awaiting>>
playerVars == <<known_players, db, lastPoll, seen>>
ftpVars    == <<remote, ftp_host, remote_config_path, all_config_data, config_changes_made, ftp>>
cmdVars    == <<io, exchange, entities, parser>>
vars       == <<now, sessVars, schedVars, playerVars, ftpVars, cmdVars>>

\* ------------------------------------------------------------- helpers
EmptyMap == [x \in {} |-> None]

Put(d, k, v) == [x \in DOMAIN d \cup {k} |-> IF x = k THEN v ELSE d[x]]

Range(s) == {s[i] : i \in DOMAIN s}

\* ======================================================================
\* Player registry
\* ======================================================================
PlayerIds == {"1", "2"}

\* A live record as get_player_list_from_plys builds it: a connected player
\* carries ip and playfield, a player known from the global list only is
\* Offline with both empty.
LiveOnline(id, name, fac, role) ==
    [id |-> id, name |-> name, faction |-> fac, role |-> role,
     status |-> "Online", ip |-> "10.0.0.1", playfield |-> "Akua"]

LiveOffline(id, name, fac, role) ==
    [id |-> id, name |-> name, faction |-> fac, role |-> role,
     status |-> "Offline", ip |-> "", playfield |-> ""]

\* The records the live list can hold for an identifier: player "1" is seen
\* connected without faction and role, connected with them under another
\* spelling of the name, and in the global list only; player "2" is only
\* ever seen connected.
LiveRecords(id) ==
    IF id = "1"
    THEN { LiveOnline(id, "bob", "", ""),
           LiveOnline(id, "Bob", "Abc", "Player"),
           LiveOffline(id, "Bob", "Abc", "Player") }
    ELSE { LiveOnline(id, "amy", "", "") }

\* The live lists a poll can parse: id -> record, for any subset of the ids.
LiveFeeds ==
    UNION { { f \in [S -> UNION {LiveRecords(i) : i \in S}] :
                \A i \in S : f[i].id = i } : S \in SUBSET PlayerIds }

\* One row of table players.
DbRow(p, lso, lsoff, first, upd) ==
    [player_name |-> p.name, faction |-> p.faction, role |-> p.role,
     last_seen_online |-> lso, last_seen_offline |-> lsoff,
     first_seen |-> first, last_updated |-> upd]

\* _load_all_known_players: every row, Offline with no live data.
LoadAllKnownPlayers(table) ==
    [id \in DOMAIN table |->
        [id |-> id,
         name |-> IF table[id].player_name = "" THEN "Unknown" ELSE table[id].player_name,
         faction |-> table[id].faction,
         role |-> table[id].role,
         last_seen_online |-> table[id].last_seen_online,
         last_seen_offline |-> table[id].last_seen_offline,
         first_seen |-> table[id].first_seen,
         last_updated |-> table[id].last_updated,
         status |-> "Offline", ip |-> "", playfield |-> ""]]

\* _update_player_in_db on the row of player_data's id (None: no such row).
UpdateExistingRow(existing, player_data, status_changed, t) ==
    [existing EXCEPT
        !.player_name = player_data.name,
        !.faction = player_data.faction,
        !.role = player_data.role,
        !.last_updated = t,
        !.last_seen_online =
            IF status_changed /\ player_data.status = "Online" THEN t ELSE @,
        !.last_seen_offline =
            IF status_changed /\ player_data.status # "Online" THEN t ELSE @]

InsertNewRow(player_data, t) ==
    DbRow(player_data,
          IF player_data.status = "Online" THEN t ELSE None,
          IF player_data.status = "Offline" THEN t ELSE None,
          t, t)

UpdatePlayerInDb(table, player_data, status_changed, t) ==
    IF player_data.id \in DOMAIN table
    THEN Put(table, player_data.id,
             UpdateExistingRow(table[player_data.id], player_data, status_changed, t))
    ELSE Put(table, player_data.id, InsertNewRow(player_data, t))

\* --- _merge_live_data_with_known_players, one identifier at a time -------
\* known in memory and in the live list: live data over the known record,
\* the record's timestamps kept.
MergedPlayer_LiveOnly(known_player, live_player) ==
    [id |-> live_player.id,
     name |-> live_player.name,
     faction |-> live_player.faction,
     role |-> live_player.role,
     status |-> live_player.status,
     ip |-> live_player.ip,
     playfield |-> live_player.playfield,
     last_seen_online |-> None,
     last_seen_offline |-> None,
     first_seen |-> None,
     last_updated |-> None]

MergedPlayer(known_player, live_player) ==
    [id |-> known_player.id,
     name |-> live_player.name,
     faction |-> live_player.faction,
     role |-> live_player.role,
     status |-> live_player.status,
     ip |-> live_player.ip,
     playfield |-> live_player.playfield,
     last_seen_online |-> known_player.last_seen_online,
     last_seen_offline |-> known_player.last_seen_offline,
     first_seen |-> known_player.first_seen,
     last_updated |-> known_player.last_updated]

StatusChanged(known_player, live_player) ==
    known_player.status # live_player.status

DataChanged(known_player, live_player) ==
    \/ known_player.name # live_player.name
    \/ known_player.faction # live_player.faction
    \/ known_player.role # live_player.role

\* known in memory and absent from the live list: forced Offline only when
\* the record was Online.
AbsentWasOnline_Never(known_player) == FALSE

AbsentWasOnline_Always(known_player) == TRUE

AbsentWasOnline(known_player) == known_player.status = "Online"

ForcedOffline(known_player) ==
    [known_player EXCEPT !.status = "Offline", !.ip = "", !.playfield = ""]

NewPlayer(live_player) ==
    [id |-> live_player.id,
     name |-> live_player.name,
     faction |-> live_player.faction,
     role |-> live_player.role,
     status |-> live_player.status,
     ip |-> live_player.ip,
     playfield |-> live_player.playfield,
     last_seen_online |-> None,
     last_seen_offline |-> None,
     first_seen |-> None,
     last_updated |-> None]

\* The identifiers of merged_players after both loops.
MergedIds_LiveOnly(known, live) == DOMAIN live

MergedIds(known, live) == DOMAIN known \cup DOMAIN live

\* The record merged_players holds for id after the merge.
MergedRecord(known, live, id) ==
    IF id \in DOMAIN known
    THEN IF id \in DOMAIN live
         THEN MergedPlayer(known[id], live[id])
         ELSE IF AbsentWasOnline(known[id]) THEN ForcedOffline(known[id]) ELSE known[id]
    ELSE NewPlayer(live[id])

\* The _update_player_in_db call the merge makes for id: "none", or the
\* call with status_changed=True ("status") or status_changed=False ("data").
WriteCall(known, live, id) ==
    IF id \in DOMAIN known
    THEN IF id \in DOMAIN live
         THEN IF StatusChanged(known[id], live[id]) THEN "status"
              ELSE IF DataChanged(known[id], live[id]) THEN "data"
              ELSE "none"
         ELSE IF AbsentWasOnline(known[id]) THEN "status" ELSE "none"
    ELSE "status"

MergeKnown(known, live) ==
    [id \in MergedIds(known, live) |-> MergedRecord(known, live, id)]

\* The table after the merge's writes; the writes for the ids in failing
\* raise inside _update_player_in_db and persist nothing.
RECURSIVE MergeDb(_, _, _, _, _, _)
MergeDb(table, known, live, ids, failing, t) ==
    IF ids = {} THEN table
    ELSE LET id == CHOOSE x \in ids : TRUE
             call == WriteCall(known, live, id)
             next == IF call = "none" \/ id \in failing
                     THEN table
                     ELSE UpdatePlayerInDb(table, MergeKnown(known, live)[id],
                                           call = "status", t)
         IN MergeDb(next, known, live, ids \ {id}, failing, t)

\* What a poll cycle leaves to be observed: the identifiers of its live
\* list, the known players it found Online and absent from the list
\* (dropped), those of them the cycle before had dropped already (absent2),
\* per identifier the number of _update_player_in_db calls made with
\* status_changed=True, and the identifiers whose call raised (failed).
PollRecord(kind, known, live, failing) ==
    [seq |-> 1 - lastPoll.seq,
     kind |-> kind,
     feed |-> DOMAIN live,
     dropped |-> {id \in DOMAIN known \ DOMAIN live : known[id].status = "Online"},
     absent2 |-> IF kind = "poll" THEN lastPoll.dropped \ DOMAIN live ELSE {},
     calls |-> [id \in DOMAIN known \cup DOMAIN live |->
                   IF WriteCall(known, live, id) = "status" THEN 1 ELSE 0],
     failed |-> {id \in failing \cap (DOMAIN known \cup DOMAIN live) :
                    WriteCall(known, live, id) # "none"}]

\* ======================================================================
\* Scheduled messages
\* ======================================================================
\* A schedule text, by what _should_send_message reads of it: whether it
\* contains 'minute', whether it contains 'hour', and the first run of
\* digits in it (NoNumber when re.search finds none).
NoNumber == 0 - 1

Every5Minutes  == [num |-> 5,  minute |-> TRUE,  hour |-> FALSE]
Every30Minutes == [num |-> 30, minute |-> TRUE,  hour |-> FALSE]
Every1Hour     == [num |-> 1,  minute |-> FALSE, hour |-> TRUE]
\* texts only a hand-edited scheduled_messages.json can hold
Daily          == [num |-> NoNumber, minute |-> FALSE, hour |-> FALSE]
EveryMinute    == [num |-> NoNumber, minute |-> TRUE,  hour |-> FALSE]

\* str.strip() on the message texts of the model.
Strip(text) == IF text = "   " THEN "" ELSE text

Message(enabled, text, schedule) ==
    [enabled |-> enabled, text |-> text, schedule |-> schedule]

\* What get_scheduled_messages_data can hand to save_scheduled_messages:
\* one dict per row of the window.
UiMessages ==
    { Message(FALSE, "", Every30Minutes),
      Message(TRUE, "hi", Every30Minutes),
      Message(TRUE, "hi", Every1Hour) }

UiMessageLists == [1..NumSlots -> UiMessages]

\* scheduled_messages.json: absent, unreadable as JSON, or a JSON list
\* whose elements are dicts or something else.
FileEntry(isdict, m) ==
    [dict |-> isdict, enabled |-> m.enabled, text |-> m.text, schedule |-> m.schedule]

FileAbsent  == [kind |-> "absent", items |-> <<>>]
FileCorrupt == [kind |-> "corrupt", items |-> <<>>]
FileOf(messages_data) ==
    [kind |-> "list",
     items |-> [i \in 1..Len(messages_data) |-> FileEntry(TRUE, messages_data[i])]]
FileHandEdited ==
    [kind |-> "list",
     items |-> << FileEntry(FALSE, Message(FALSE, "", Every5Minutes)),
                  FileEntry(TRUE, Message(TRUE, "   ", Every30Minutes)),
                  FileEntry(TRUE, Message(TRUE, "hi", Daily)) >>]

InitialFiles == {FileAbsent, FileCorrupt, FileHandEdited}

\* the empty configuration load_scheduled_messages falls back to
EmptyMessages == [i \in 1..NumSlots |-> Message(FALSE, "", Every5Minutes)]

CleanedEntry(e) == Message(e.enabled, e.text, e.schedule)

RECURSIVE CleanedMessages(_)
CleanedMessages(items) ==
    IF items = <<>> THEN <<>>
    ELSE IF Head(items).dict
         THEN <<CleanedEntry(Head(items))>> \o CleanedMessages(Tail(items))
         ELSE CleanedMessages(Tail(items))

\* load_scheduled_messages: the list it assigns to self.scheduled_messages.
LoadedMessages(file) ==
    CASE file.kind = "list"    -> CleanedMessages(file.items)
      [] file.kind = "absent"  -> EmptyMessages
      [] OTHER                 -> EmptyMessages

\* check_scheduled_messages skips a slot that is not enabled or whose text
\* is empty once stripped.
SlotEvaluated(msg_data) == msg_data.enabled /\ Strip(msg_data.text) # ""

\* timedelta(minutes=n) / timedelta(hours=n), in minutes.
RequiredInterval(schedule) ==
    IF schedule.minute THEN schedule.num ELSE schedule.num * MinutesPerHour

IntervalElapsed_Always(last_sent, required, current_time) == TRUE

IntervalElapsed_Strict(last_sent, required, current_time) ==
    current_time - last_sent > required

IntervalElapsed(last_sent, required, current_time) ==
    current_time - last_sent >= required

\* _should_send_message when a last-sent time exists.
DueSince(last_sent, schedule, current_time) ==
    IF schedule.minute \/ schedule.hour
    THEN IF schedule.num = NoNumber
         THEN FALSE
         ELSE IntervalElapsed(last_sent, RequiredInterval(schedule), current_time)
    ELSE FALSE

FirstRunSends_Immediately(check, msg_index) == TRUE

\* _should_send_message: its result when no last-sent time exists.
FirstRunSends(check, msg_index) == FALSE

\* _should_send_message: [send, check], check being last_message_check after it.
ShouldSendMessage(check, msg_index, schedule, current_time) ==
    IF msg_index \notin DOMAIN check
    THEN [send |-> FirstRunSends(check, msg_index),
          check |-> Put(check, msg_index, current_time)]
    ELSE [send |-> DueSince(check[msg_index], schedule, current_time),
          check |-> check]

SendFromTick_Unguarded(st, i, failing) ==
    IF socket # "open" \/ i \in failing
    THEN [st EXCEPT !.sent = @ \cup {i}, !.connected = FALSE]
    ELSE [st EXCEPT !.sent = @ \cup {i}, !.wrote = @ \cup {i}]

\* send_global_message -> send_command on the session st: nothing is written
\* unless connected with a socket; a write that raises (the socket is not an
\* open connection, or the write to slot i fails) clears connected.
SendFromTick(st, i, failing) ==
    IF ~st.connected \/ socket = "none"
    THEN [st EXCEPT !.sent = @ \cup {i}]
    ELSE IF socket # "open" \/ i \in failing
         THEN [st EXCEPT !.sent = @ \cup {i}, !.connected = FALSE]
         ELSE [st EXCEPT !.sent = @ \cup {i}, !.wrote = @ \cup {i}]

NextSlot_StopOnFailure(st, i, n) == IF i \in st.sent \ st.wrote THEN n + 1 ELSE i + 1

\* the slot the loop goes on with once send_global_message has returned for
\* slot i of n: the next one, whatever became of the write
NextSlot(st, i, n) == i + 1

\* the loop of check_scheduled_messages from slot i on
RECURSIVE TickSlots(_, _, _, _, _)
TickSlots(i, msgs, st, failing, current_time) ==
    IF i > Len(msgs) THEN st
    ELSE IF ~SlotEvaluated(msgs[i])
         THEN TickSlots(i + 1, msgs, st, failing, current_time)
         ELSE LET r == ShouldSendMessage(st.check, i, msgs[i].schedule, current_time)
                  checked == [st EXCEPT !.check = r.check]
              IN IF r.send
                 THEN LET sent == [SendFromTick(checked, i, failing)
                                      EXCEPT !.check = Put(r.check, i, current_time)]
                      IN TickSlots(NextSlot(sent, i, Len(msgs)), msgs, sent,
                                   failing, current_time)
                 ELSE TickSlots(i + 1, msgs, checked, failing, current_time)

EvaluatedSlots(msgs) == {i \in 1..Len(msgs) : SlotEvaluated(msgs[i])}

\* What is observed of a tick: the slots send_global_message was called for
\* (sent), those whose write the server accepted (wrote), the time of the
\* latest such call per slot over all ticks so far (fired), for the slots
\* of this tick that had one before the time of the previous one (before),
\* and self.connected when the tick began (ready).
NoTick ==
    [sent |-> {}, wrote |-> {}, fired |-> EmptyMap, before |-> EmptyMap, ready |-> FALSE]

TickRecord(previous, st, current_time) ==
    [sent |-> st.sent, wrote |-> st.wrote, ready |-> connected,
     fired |-> [i \in DOMAIN previous.fired \cup st.sent |->
                   IF i \in st.sent THEN current_time ELSE previous.fired[i]],
     before |-> [i \in DOMAIN previous.fired \cap st.sent |-> previous.fired[i]]]

\* check_scheduled_messages, on a timeout of message_timer
CheckScheduledMessages ==
    /\ message_timer_active
    /\ \E failing \in SUBSET (1..Len(scheduled_messages)) :
          LET st == TickSlots(1, scheduled_messages,
                              [connected |-> connected, check |-> last_message_check,
                               sent |-> {}, wrote |-> {}],
                              failing, now)
          IN /\ connected' = st.connected
             /\ last_message_check' = st.check
             /\ lastTick' = TickRecord(lastTick, st, now)
    /\ awaiting' = awaiting \ EvaluatedSlots(scheduled_messages)
    /\ UNCHANGED <<cmdVars, now, socket, running, timer_active, message_timer_active,
                   scheduled_messages, messages_file, playerVars, ftpVars>>

\* slots that become evaluated by a new list and were not under the old one
NewlyEnabled(old, new) ==
    {i \in EvaluatedSlots(new) : i \notin EvaluatedSlots(old)}

\* save_scheduled_messages(messages_data), from the Save button; opening or
\* writing the file may fail, which is logged.
SaveScheduledMessages(writeOutcomes) ==
    \E messages_data \in UiMessageLists, written \in writeOutcomes :
        /\ scheduled_messages' = messages_data
        /\ messages_file' = IF written THEN FileOf(messages_data) ELSE messages_file
        /\ awaiting' = (awaiting \cap EvaluatedSlots(messages_data))
                          \cup NewlyEnabled(scheduled_messages, messages_data)
        /\ UNCHANGED <<cmdVars, now, sessVars, last_message_check, lastTick, playerVars, ftpVars>>

\* load_scheduled_messages, from the Load button
LoadScheduledMessages ==
    /\ scheduled_messages' = LoadedMessages(messages_file)
    /\ awaiting' = EvaluatedSlots(LoadedMessages(messages_file))
    /\ UNCHANGED <<cmdVars, now, sessVars, last_message_check, messages_file, lastTick,
                   playerVars, ftpVars>>

\* ======================================================================
\* send_command and the commands built on it
\* ======================================================================
\* What is observed of one use of the socket: the caller (op), connected
\* and socket when it began, whether a timer was active and whether a write
\* was attempted on the socket, what happened on the transport (event), what
\* the caller got back (result), and connected afterwards.
IoRecord(op, ready, sock, timers, wrote, event, result, after) ==
    [op |-> op, ready |-> ready, sock |-> sock, timers |-> timers, wrote |-> wrote,
     event |-> event, result |-> result, connected |-> after]

NoIo == IoRecord("none", FALSE, "none", FALSE, FALSE, "none", "none", FALSE)

\* the threads a handler can run on: the QThread the worker was moved to
\* (start_monitoring, timers, slots connected to button signals), and the
\* thread of the window, which calls worker methods directly
Threads == {"worker", "ui"}

NoExchange == [t \in Threads |-> "idle"]

\* "if not self.connected or not self.socket: return 'Not connected'"
CanSend_Always(conn, sock) == TRUE

CanSend(conn, sock) == conn /\ sock # "none"

\* socket.send(cmd): accepted only by an open connection, and not always
SendOutcomes(sock) == IF sock = "open" THEN {"sent", "send_error"} ELSE {"send_error"}

\* _read_until(b'>', 20) inside send_command: the prompt arrives; or the
\* read times out or the peer closes, and the bytes read so far are
\* returned; or recv raises.
ReadOutcomes(sock) ==
    IF sock = "open" THEN {"prompt", "timeout", "eof", "recv_error"} ELSE {"recv_error"}

\* what send_command returns after event
ResultOf(event) ==
    CASE event = "prompt" -> "response"
      [] event \in {"timeout", "eof"} -> "partial"
      [] OTHER -> "error"

\* self.connected after event: the except clause clears it
ConnectedAfter_Restored(conn, event) == event \notin {"send_error", "recv_error"}

ConnectedAfter(conn, event) ==
    IF event \in {"send_error", "recv_error"} THEN FALSE ELSE conn

TimersActive == timer_active \/ message_timer_active

\* --- entities
\* A line of the gents output, as _parse_entities tells lines apart after
\* strip(): empty, 'Playfield: <text>', '<id>: <type> [<faction>] <name>'
\* (the lines its regular expression matches), and lines that are neither,
\* among them a header '<text> [<bracket>]' as in "Akua [Moon]".
GentsLine(kind, text, bracket, entity_id, type, name, indented) ==
    [kind |-> kind, text |-> text, bracket |-> bracket, entity_id |-> entity_id,
     type |-> type, name |-> name, indented |-> indented]

GentsBlank == GentsLine("blank", "", "", "", "", "", FALSE)
PlayfieldLine(text) == GentsLine("playfield", text, "", "", "", "", FALSE)
BracketHeader(text, bracket) == GentsLine("header", text, bracket, "", "", "", FALSE)
EntityLine(entity_id, type, faction, name) ==
    GentsLine("entity", "", faction, entity_id, type, name, TRUE)
GentsOther(text) == GentsLine("other", text, "", "", "", "", FALSE)

Entity(playfield, entity_id, type, faction, name) ==
    [playfield |-> playfield, entity_id |-> entity_id, type |-> type,
     faction |-> faction, name |-> name]

\* one iteration of the loop of _parse_entities
ParseEntitiesLine(st, line) ==
    IF line.kind = "blank" THEN st
    ELSE IF line.kind = "playfield"
    THEN [st EXCEPT !.current_playfield = line.text]
    ELSE IF line.kind = "entity"
    THEN [st EXCEPT !.entities =
             Append(@, Entity(st.current_playfield, line.entity_id, line.type,
                              line.bracket, line.name))]
    ELSE st

RECURSIVE ParseEntitiesFrom(_, _, _)
ParseEntitiesFrom(lines, i, st) ==
    IF i > Len(lines) THEN st.entities
    ELSE ParseEntitiesFrom(lines, i + 1, ParseEntitiesLine(st, lines[i]))

\* _parse_entities
ParseEntities(gents_output) ==
    ParseEntitiesFrom(gents_output, 1, [entities |-> <<>>, current_playfield |-> ""])

\* the rows of table entities after the transaction of _store_entities
\* committed: DELETE FROM entities, then one INSERT per entity
RowsAfterStore_Merged(rows, new_entities) == rows \o new_entities

RowsAfterStore(rows, new_entities) == new_entities

\* _store_entities: a sqlite error before the commit leaves the table as it was
StoreEntities(rows, new_entities, committed) ==
    IF committed THEN RowsAfterStore(rows, new_entities) ELSE rows

\* the observation of one parse; for load_entities also whether the store
\* committed and the rows the table held before it
ParseRecord(fn, input, output, stored, replaced) ==
    [fn |-> fn, input |-> input, output |-> output, stored |-> stored,
     replaced |-> replaced]

NoParse == ParseRecord("none", <<>>, <<>>, FALSE, <<>>)

\* gents outputs of the server
GentsResponseA ==
    <<PlayfieldLine("Akua"), EntityLine("1001", "BA", "Zrx", "Outpost"),
      EntityLine("1002", "CV", "Pol", "Freighter")>>

GentsResponseB ==
    <<BracketHeader("Akua", "Moon"), EntityLine("2001", "SV", "Tal", "Scout")>>

GentsResponses == {GentsResponseA, GentsResponseB}

\* the text send_command('gents') returns, by its result: the response up to
\* the prompt, the lines read before a timeout, or a message of send_command
GentsTexts(result) ==
    CASE result = "response" -> GentsResponses
      [] result = "partial" -> {SubSeq(r, 1, Len(r) - 1) : r \in GentsResponses}
      [] result = "not_connected" -> {<<GentsOther("Not connected")>>}
      [] OTHER -> {<<GentsOther("Error: connection reset")>>}

\* --- commands
\* send_command has returned to caller on thread t, with the observation rec;
\* load_entities goes on to parse and store what it got.
CommandReturns(t, caller, rec) ==
    /\ io' = rec
    /\ connected' = rec.connected
    /\ exchange' = [exchange EXCEPT ![t] = "idle"]
    /\ IF caller = "gents"
       THEN \E text \in GentsTexts(rec.result), committed \in BOOLEAN :
               /\ entities' = StoreEntities(entities, ParseEntities(text), committed)
               /\ parser' = ParseRecord("gents", text, ParseEntities(text), committed,
                                       entities)
       ELSE UNCHANGED <<entities, parser>>
    /\ UNCHANGED <<now, socket, running, timer_active, message_timer_active,
                   schedVars, playerVars, ftpVars>>

\* send_command(cmd) on thread t up to the read: the guard, then socket.send
SendCommandBegin(t, caller) ==
    /\ socket # "none"
    /\ exchange[t] = "idle"
    /\ IF ~CanSend(connected, socket)
       THEN CommandReturns(t, caller,
                IoRecord(caller, connected, socket, TimersActive, FALSE, "none",
                         "not_connected", connected))
       ELSE \E outcome \in SendOutcomes(socket) :
               IF outcome = "sent"
               THEN /\ exchange' = [exchange EXCEPT ![t] = caller]
                    /\ UNCHANGED <<io, entities, parser, now, sessVars, schedVars,
                                   playerVars, ftpVars>>
               ELSE CommandReturns(t, caller,
                        IoRecord(caller, connected, socket, TimersActive, TRUE, outcome,
                                 ResultOf(outcome), ConnectedAfter(connected, outcome)))

\* send_command on thread t from the read on: _read_until, then the return
SendCommandEnd(t) ==
    /\ exchange[t] # "idle"
    /\ \E event \in ReadOutcomes(socket) :
          CommandReturns(t, exchange[t],
              IoRecord(exchange[t], TRUE, "open", TimersActive, TRUE, event,
                       ResultOf(event), ConnectedAfter(connected, event)))

\* kick_player, ban_player, unban_player, send_private_message from the
\* player menu and send_global_message from the Send button: called by the
\* window on its own thread, the result of send_command only logged
UiCommand == SendCommandBegin("ui", "command")

\* on_load_entities_clicked -> load_entities, on the thread of the window
LoadEntities == SendCommandBegin("ui", "gents")

\* save_server, a slot connected to the clicked signal of the Save button:
\* runs on the thread of the worker
SaveServer == SendCommandBegin("worker", "saveall")

UiReads == SendCommandEnd("ui")

WorkerReads == SendCommandEnd("worker")

\* ======================================================================
\* Telnet session, timers and the poll cycle
\* ======================================================================
\* force_player_update once connected was found set: send_command('plys')
\* either raises (connected is cleared, the error text parses to no player)
\* or the parsed response is the live list; then the merge.
PollCycle(kind, known, sock, feeds, failSets) ==
    \E sent \in BOOLEAN, feed \in feeds, failing \in failSets :
        LET ok == sent /\ sock = "open"
            live == IF ok THEN feed ELSE EmptyMap
        IN /\ connected' = ok
           /\ known_players' = MergeKnown(known, live)
           /\ db' = MergeDb(db, known, live, MergedIds(known, live), failing, now)
           /\ lastPoll' = PollRecord(kind, known, live, failing)
           /\ seen' = IF kind = "start"
                      THEN DOMAIN known \cup DOMAIN live
                      ELSE seen \cup DOMAIN live

\* The two _read_until calls of start_monitoring: both markers arrive
\* ("prompt"); or 'Password:' does not arrive within the read bound and the
\* password is written all the same; or '>' does not arrive within the
\* bound; or the peer closes before '>'.  _read_until returns in every case.
MarkersArrive == {"prompt"}

StartReads == {"prompt", "password_timeout", "timeout", "eof"}

\* start_monitoring.  The connect or the password write may raise, and the
\* method returns; otherwise: load the registry, poll, start both timers,
\* load the scheduled messages.
StartMonitoring(feeds, failSets, loadFails, reads) ==
    \E outcome \in {"ok", "connect_failed", "password_failed"} :
        IF outcome # "ok"
        THEN /\ running' = FALSE
             /\ socket' = IF outcome = "connect_failed" THEN "unconnected" ELSE "open"
             /\ io' = IoRecord("start", connected, socket, FALSE,
                               outcome = "password_failed", outcome, "failed", connected)
             /\ UNCHANGED <<exchange, entities, parser, now, connected, timer_active,
                            message_timer_active, schedVars, playerVars, ftpVars>>
        ELSE /\ running' = TRUE
             /\ socket' = "open"
             /\ \E loadFailed \in loadFails :
                   PollCycle("start",
                             IF loadFailed THEN EmptyMap ELSE LoadAllKnownPlayers(db),
                             "open", feeds, failSets)
             /\ timer_active' = TRUE
             /\ message_timer_active' = TRUE
             /\ scheduled_messages' = LoadedMessages(messages_file)
             /\ awaiting' = EvaluatedSlots(LoadedMessages(messages_file))
             \* whatever the reads returned: self.connected = True and
             \* connectionStatusChanged(True, 'Connected'), then the first poll
             /\ \E event \in reads :
                   io' = IoRecord("start", connected, socket, FALSE, TRUE, event,
                                  "connected", connected')
             /\ UNCHANGED <<exchange, entities, parser, now, last_message_check,
                            messages_file, lastTick, ftpVars>>

\* MainWindow.start_worker: a Worker is started once, by the started signal
\* of the thread it was moved to.
StartWorker(feeds, failSets, loadFails, reads) ==
    /\ socket = "none"
    /\ StartMonitoring(feeds, failSets, loadFails, reads)

\* stop_monitoring: both timers stop; with a socket, 'exit' is written and
\* the socket closed, unless the write raises.
StopMonitoring ==
    /\ running' = FALSE
    /\ timer_active' = FALSE
    /\ message_timer_active' = FALSE
    /\ \E sent \in BOOLEAN :
          socket' = IF socket = "open" /\ sent THEN "closed" ELSE socket
    /\ connected' = FALSE
    /\ io' = IoRecord("stop", connected, socket, FALSE, socket # "none",
                      IF socket = "none" THEN "none"
                      ELSE IF socket' = "closed" /\ socket = "open" THEN "sent"
                      ELSE "send_error",
                      "none", FALSE)
    /\ UNCHANGED <<exchange, entities, parser, now, schedVars, playerVars, ftpVars>>

\* MainWindow.stop_worker (Disconnect, and again closeEvent): the window
\* calls stop_monitoring of the worker it holds
StopWorker ==
    /\ socket # "none"
    /\ exchange["ui"] = "idle"
    /\ StopMonitoring

\* force_player_update, on a timeout of timer or from the Refresh button
ForcePlayerUpdate(feeds, failSets) ==
    /\ connected
    /\ PollCycle("poll", known_players, socket, feeds, failSets)
    /\ UNCHANGED <<cmdVars, now, socket, running, timer_active, message_timer_active,
                   schedVars, ftpVars>>

\* time passes
AdvanceClock(limit) ==
    /\ now + ClockStep <= limit
    /\ now' = now + ClockStep
    /\ UNCHANGED <<cmdVars, sessVars, schedVars, playerVars, ftpVars>>

\* ======================================================================
\* Config files over FTP
\* ======================================================================
\* A line of a config file, as the parser tells lines apart after strip():
\* blank, '#...' comment, '{ name' opening, '}' closing, 'StackSize: v',
\* 'Category: v', anything else.  indent is the leading white space that
\* strip() removes; numeric tells whether int() accepts the StackSize value.
Line(kind, text, num, numeric, indent) ==
    [kind |-> kind, text |-> text, num |-> num, numeric |-> numeric, indent |-> indent]

NoIndent == 0
BlockIndent == 2

BlankLine == Line("blank", "", 0, FALSE, NoIndent)
CommentLine(text) == Line("comment", text, 0, FALSE, NoIndent)
OpenLine(name) == Line("open", name, 0, FALSE, NoIndent)
CloseLine == Line("close", "", 0, FALSE, NoIndent)
StackSizeLine(n) == Line("stack", "", n, TRUE, BlockIndent)
BadStackSizeLine(text) == Line("stack", text, 0, FALSE, BlockIndent)
CategoryLine(category) == Line("category", category, 0, FALSE, BlockIndent)
OtherLine(text) == Line("other", text, 0, FALSE, BlockIndent)

TEMPLATE_NAMES == {"FoodTemplate", "OreTemplate", "ComponentsTemplate"}

ConfigItem(name, stack_size, category, source_file) ==
    [name |-> name, stack_size |-> stack_size, category |-> category,
     source_file |-> source_file, is_template |-> name \in TEMPLATE_NAMES]

\* current_item = None
NoItem == ConfigItem("", None, "", "")

\* one iteration of the loop over lines in _parse_config_file; has_stack is
\* "current_item['stack_size'] is not None"
ParseLine(st, line, filename) ==
    IF line.kind \in {"blank", "comment"} THEN st
    ELSE IF line.kind = "open"
    THEN [st EXCEPT !.current_item = ConfigItem(line.text, None, "Unknown", filename),
                    !.has_stack = FALSE,
                    !.inside_block = TRUE]
    ELSE IF line.kind = "close" /\ st.inside_block
    THEN [items |-> IF st.has_stack THEN Append(st.items, st.current_item) ELSE st.items,
          current_item |-> NoItem, has_stack |-> FALSE, inside_block |-> FALSE]
    ELSE IF ~st.inside_block THEN st
    ELSE IF line.kind = "stack"
    THEN IF line.numeric
         THEN [st EXCEPT !.current_item.stack_size = line.num, !.has_stack = TRUE]
         ELSE st
    ELSE IF line.kind = "category"
    THEN [st EXCEPT !.current_item.category = line.text]
    ELSE st

RECURSIVE ParseLines(_, _, _, _)
ParseLines(lines, i, st, filename) ==
    IF i > Len(lines) THEN st.items
    ELSE ParseLines(lines, i + 1, ParseLine(st, lines[i], filename), filename)

\* _parse_config_file once RETR has delivered the content
ParseConfigFile(lines, filename) ==
    ParseLines(lines, 1,
               [items |-> <<>>, current_item |-> NoItem, has_stack |-> FALSE,
                inside_block |-> FALSE],
               filename)

\* the lines _update_config_file writes for one item
ItemBlock(item) ==
    <<OpenLine(item.name), StackSizeLine(item.stack_size)>>
      \o (IF item.category # "" THEN <<CategoryLine(item.category)>> ELSE <<>>)
      \o <<CloseLine, BlankLine>>

RECURSIVE ItemBlocks(_, _)
ItemBlocks(items, i) ==
    IF i > Len(items) THEN <<>> ELSE ItemBlock(items[i]) \o ItemBlocks(items, i + 1)

\* the content _update_config_file uploads for a file
UpdateContent(items) ==
    <<CommentLine("# Auto-generated config update")>> \o ItemBlocks(items, 1)

\* files_to_update of _upload_config_to_ftp: the source files in order of
\* first appearance, each with its items
RECURSIVE GroupFiles(_, _, _)
GroupFiles(config_data, i, files) ==
    IF i > Len(config_data) THEN files
    ELSE GroupFiles(config_data, i + 1,
                    IF config_data[i].source_file \in Range(files) THEN files
                    ELSE Append(files, config_data[i].source_file))

FilesToUpdate(config_data) == GroupFiles(config_data, 1, <<>>)

ItemsOfFile(config_data, filename) ==
    SelectSeq(config_data, LAMBDA item : item.source_file = filename)

\* --- the server
\* The directory an FTP session is in after login, and a configured
\* remote_log_path other than it.
LoginDir == "/"
ConfigDir == "/cfg"
Directories == {LoginDir, ConfigDir}

Org(filename) == filename \o ".org"
Bak(filename) == filename \o ".bak"

\* the *.ecf names of the server, in the order LIST gives them
EcfFiles == <<"a.ecf", "b.ecf">>

ContentA ==
    <<CommentLine("# items"), OpenLine("IronIngot"), StackSizeLine(500),
      CategoryLine("Material"), OtherLine("Mass: 10"), CloseLine>>

ContentB ==
    <<OpenLine("OreTemplate"), StackSizeLine(500), CloseLine,
      OpenLine("Marker"), BadStackSizeLine("many"), CloseLine>>

InitialFilesOfServer == [f \in {"a.ecf", "b.ecf"} |-> IF f = "a.ecf" THEN ContentA ELSE ContentB]

\* The server after earlier sessions of the program saved a.ecf twice with
\* IronIngot set to 750 (b.ecf was not retrieved in them).
SavedContentA == UpdateContent(<<ConfigItem("IronIngot", 750, "Material", "a.ecf")>>)

FilesAfterEarlierSaves ==
    [f \in {"a.ecf", Org("a.ecf"), Bak("a.ecf"), "b.ecf"} |->
        CASE f = "a.ecf" -> SavedContentA
          [] f = Org("a.ecf") -> ContentA
          [] f = Bak("a.ecf") -> SavedContentA
          [] OTHER -> ContentB]

\* the sample _fetch_config_from_ftp returns when FTP is not configured
SampleConfigData ==
    << [name |-> "FoodTemplate", stack_size |-> 100, category |-> "Food",
        source_file |-> "Config_Example.ecf", is_template |-> FALSE],
       [name |-> "IronIngot", stack_size |-> 500, category |-> "Material",
        source_file |-> "Config_Example.ecf", is_template |-> FALSE],
       [name |-> "SteelPlate", stack_size |-> 250, category |-> "Component",
        source_file |-> "Config_Example.ecf", is_template |-> FALSE] >>

FtpConfigured == ftp_host # ""

\* rename on the server: the entry moves to the new name (and replaces what
\* was there)
Renamed(files, from, to) ==
    [x \in (DOMAIN files \ {from}) \cup {to} |->
        IF x = to THEN files[from] ELSE files[x]]

Deleted(files, name) == [x \in DOMAIN files \ {name} |-> files[x]]

\* --- fetch
\* config_items of _fetch_config_from_ftp when the listing succeeded: the
\* items of every listed file, a file whose RETR or decoding fails giving none
\* config_items after a file whose RETR or decoding raised: the except clause
\* of _parse_config_file logs it and returns no item, and the loop of
\* _fetch_config_from_ftp goes on with the files that follow
AfterRetrError_AbortFetch(following) == <<>>

AfterRetrError(following) == following

RECURSIVE FetchedItems(_, _, _)
FetchedItems(files, i, notRetrieved) ==
    IF i > Len(EcfFiles) THEN <<>>
    ELSE IF EcfFiles[i] \notin DOMAIN files THEN FetchedItems(files, i + 1, notRetrieved)
    ELSE IF EcfFiles[i] \in notRetrieved
         THEN AfterRetrError(FetchedItems(files, i + 1, notRetrieved))
         ELSE ParseConfigFile(files[EcfFiles[i]], EcfFiles[i])
                \o FetchedItems(files, i + 1, notRetrieved)

\* what load_config_file logs about failures: one 'Error parsing <file>' per
\* file that raised, and 'FTP error' / 'Error loading config files' when
\* _fetch_config_from_ftp raised
FetchErrors(files, outcome, notRetrieved) ==
    IF outcome = "ok"
    THEN {f \in Range(EcfFiles) : f \in DOMAIN files /\ f \in notRetrieved}
    ELSE {"FTP error"}

\* load_config_file with FTP configured: the list it emits with
\* configDataUpdated, and what it logged
FetchConfig(files, outcome, notRetrieved) ==
    [items |-> IF outcome = "ok" THEN FetchedItems(files, 1, notRetrieved) ELSE <<>>,
     errors |-> FetchErrors(files, outcome, notRetrieved)]

\* the files whose RETR fails during one fetch
RetrFailures == {{}, {"a.ecf"}}

\* the connection of an invocation: never opened, closed by quit(), or
\* left without quit()
ConnAfterFetch(outcome) ==
    CASE outcome = "connect_failed" -> "none"
      [] outcome = "ok" -> "closed"
      [] OTHER -> "abandoned"

\* MainWindow.update_config_table: an empty list is ignored
UpdateConfigTable(config_items) ==
    IF config_items = <<>>
    THEN UNCHANGED <<all_config_data, config_changes_made>>
    ELSE /\ all_config_data' = config_items
         /\ config_changes_made' = FALSE

\* on_load_config_clicked -> load_config_file -> configDataUpdated ->
\* update_config_table.  Any exception of the fetch emits the empty list.
LoadConfigFile ==
    /\ ftp.pc = "idle"
    /\ IF ~FtpConfigured
       THEN /\ UpdateConfigTable(SampleConfigData)
            /\ UNCHANGED ftp
       ELSE \E outcome \in {"ok", "connect_failed", "list_failed"},
               notRetrieved \in RetrFailures :
               /\ UpdateConfigTable(FetchConfig(remote[remote_config_path], outcome,
                                                notRetrieved).items)
               /\ ftp' = [ftp EXCEPT !.conn = ConnAfterFetch(outcome)]
    /\ UNCHANGED <<cmdVars, now, sessVars, schedVars, playerVars, remote, remote_config_path, ftp_host>>

\* the values typed into the StackSize column
EditValues == {0, 750}

\* on_config_item_changed for the StackSize column, on all_config_data and
\* config_changes_made.  A value that is not positive raises ValueError and
\* the except clause puts the stored value back with item.setText(); the
\* handler is connected to itemChanged while it does so, so when the text
\* differs the signal calls the handler again with the stored value.
RECURSIVE ConfigItemChanged(_, _, _, _)
ConfigItemChanged(data, changed, data_index, new_value) ==
    IF new_value > 0
    THEN [data |-> [data EXCEPT ![data_index].stack_size = new_value], changed |-> TRUE]
    ELSE IF data[data_index].stack_size # new_value
         THEN ConfigItemChanged(data, changed, data_index, data[data_index].stack_size)
         ELSE [data |-> data, changed |-> changed]

OnConfigItemChanged ==
    /\ ftp.pc = "idle"
    /\ \E data_index \in 1..Len(all_config_data), new_value \in EditValues :
          LET after == ConfigItemChanged(all_config_data, config_changes_made,
                                         data_index, new_value)
          IN /\ all_config_data' = after.data
             /\ config_changes_made' = after.changed
    /\ UNCHANGED <<cmdVars, now, sessVars, schedVars, playerVars, remote, remote_config_path, ftp_host, ftp>>

\* --- save
\* "<filename>.org" not in filenames
NeedsOrgBackup_Always(filename, filenames) == TRUE

NeedsOrgBackup(filename, filenames) == Org(filename) \notin filenames

BackupStep_None(filename, filenames) == "stor"

\* the step after nlst(): the file is moved aside before the upload, to
\* <file>.org when there is none yet, else to <file>.bak once an old
\* <file>.bak is deleted
BackupStep(filename, filenames) ==
    IF NeedsOrgBackup(filename, filenames) THEN "rename_org"
    ELSE IF Bak(filename) \in filenames THEN "delete_bak"
    ELSE "rename_bak"

\* the files still to update after the except clause of _update_config_file
\* has logged the error of the one in hand
AfterFileError_AbortBatch(queue) == <<>>

AfterFileError(queue) == Tail(queue)

LogEntry(step, ok) == [step |-> step, ok |-> ok]

\* the step of the file in hand was attempted; go on with the next step
StepDone(step, next) ==
    [ftp EXCEPT !.pc = next,
                !.log[Head(ftp.queue)] = Append(@, LogEntry(step, TRUE))]

\* leave the file in hand (after its upload, or by its except clause) and
\* go on with the files that remain, or with quit()
FileLeft(step, ok, remaining) ==
    [ftp EXCEPT !.pc = IF remaining = <<>> THEN "quit" ELSE "update",
                !.queue = remaining,
                !.content = <<>>,
                !.filenames = {},
                !.log[Head(ftp.queue)] = Append(@, LogEntry(step, ok))]

FileFailed(step) == FileLeft(step, FALSE, AfterFileError(ftp.queue))

\* on_save_config_clicked -> save_config_changes -> _upload_config_to_ftp up
\* to its loop: connect, login, prot_p, group by source file.
SaveConfigChanges ==
    /\ ftp.pc = "idle"
    /\ config_changes_made
    /\ ftp.runs < MaxRuns
    /\ IF ~FtpConfigured
       THEN UNCHANGED ftp
       ELSE \E outcome \in {"ok", "connect_failed", "login_failed"} :
               ftp' = IF outcome = "ok"
                      THEN [pc |-> IF all_config_data = <<>> THEN "quit" ELSE "update",
                            queue |-> FilesToUpdate(all_config_data),
                            content |-> <<>>,
                            filenames |-> {},
                            conn |-> "open",
                            log |-> [f \in Range(FilesToUpdate(all_config_data)) |-> <<>>],
                            start |-> remote[LoginDir],
                            runs |-> ftp.runs + 1]
                      ELSE [ftp EXCEPT !.conn = IF outcome = "connect_failed"
                                                THEN "none" ELSE "abandoned",
                                       !.log = EmptyMap,
                                       !.start = remote[LoginDir],
                                       !.runs = @ + 1]
    /\ UNCHANGED <<cmdVars, now, sessVars, schedVars, playerVars, remote, remote_config_path,
                   ftp_host, all_config_data, config_changes_made>>

\* _update_config_file: build the content, nlst(), choose the backup
UpdateConfigFile_Nlst ==
    /\ ftp.pc = "update"
    /\ \E ok \in BOOLEAN :
          LET filename == Head(ftp.queue)
              filenames == DOMAIN remote[LoginDir]
          IN ftp' = IF ~ok THEN FileFailed("nlst")
                    ELSE [StepDone("nlst", BackupStep(filename, filenames))
                            EXCEPT !.content = UpdateContent(ItemsOfFile(all_config_data, filename)),
                                   !.filenames = filenames]
    /\ UNCHANGED <<cmdVars, now, sessVars, schedVars, playerVars, remote, remote_config_path,
                   ftp_host, all_config_data, config_changes_made>>

\* ftp.rename(filename, filename.org)
UpdateConfigFile_RenameOrg ==
    /\ ftp.pc = "rename_org"
    /\ \E accepted \in BOOLEAN :
          LET filename == Head(ftp.queue)
              ok == accepted /\ filename \in DOMAIN remote[LoginDir]
          IN /\ remote' = IF ok
                          THEN [remote EXCEPT ![LoginDir] = Renamed(@, filename, Org(filename))]
                          ELSE remote
             /\ ftp' = IF ok THEN StepDone("rename_org", "stor") ELSE FileFailed("rename_org")
    /\ UNCHANGED <<cmdVars, now, sessVars, schedVars, playerVars, remote_config_path,
                   ftp_host, all_config_data, config_changes_made>>

\* ftp.delete(filename.bak)
UpdateConfigFile_DeleteBak ==
    /\ ftp.pc = "delete_bak"
    /\ \E accepted \in BOOLEAN :
          LET filename == Head(ftp.queue)
              ok == accepted /\ Bak(filename) \in DOMAIN remote[LoginDir]
          IN /\ remote' = IF ok
                          THEN [remote EXCEPT ![LoginDir] = Deleted(@, Bak(filename))]
                          ELSE remote
             /\ ftp' = IF ok THEN StepDone("delete_bak", "rename_bak") ELSE FileFailed("delete_bak")
    /\ UNCHANGED <<cmdVars, now, sessVars, schedVars, playerVars, remote_config_path,
                   ftp_host, all_config_data, config_changes_made>>

\* ftp.rename(filename, filename.bak)
UpdateConfigFile_RenameBak ==
    /\ ftp.pc = "rename_bak"
    /\ \E accepted \in BOOLEAN :
          LET filename == Head(ftp.queue)
              ok == accepted /\ filename \in DOMAIN remote[LoginDir]
          IN /\ remote' = IF ok
                          THEN [remote EXCEPT ![LoginDir] = Renamed(@, filename, Bak(filename))]
                          ELSE remote
             /\ ftp' = IF ok THEN StepDone("rename_bak", "stor") ELSE FileFailed("rename_bak")
    /\ UNCHANGED <<cmdVars, now, sessVars, schedVars, playerVars, remote_config_path,
                   ftp_host, all_config_data, config_changes_made>>

\* ftp.storbinary('STOR filename', content): the whole content arrives, or
\* the transfer fails before the server created the file, or it fails
\* after a first part was written.
UpdateConfigFile_Stor ==
    /\ ftp.pc = "stor"
    /\ \E outcome \in {"ok", "refused", "cut"} :
          LET filename == Head(ftp.queue)
              stored == IF outcome = "ok" THEN ftp.content ELSE SubSeq(ftp.content, 1, 1)
          IN /\ remote' = IF outcome = "refused" THEN remote
                          ELSE [remote EXCEPT ![LoginDir] = Put(@, filename, stored)]
             /\ ftp' = IF outcome = "ok"
                       THEN FileLeft("stor", TRUE, Tail(ftp.queue))
                       ELSE FileFailed("stor")
    /\ UNCHANGED <<cmdVars, now, sessVars, schedVars, playerVars, remote_config_path,
                   ftp_host, all_config_data, config_changes_made>>

\* ftp.quit() after the loop; if it raises, save_config_changes logs it
UpdateConfig_Quit ==
    /\ ftp.pc = "quit"
    /\ \E ok \in BOOLEAN :
          ftp' = [ftp EXCEPT !.pc = "idle", !.conn = IF ok THEN "closed" ELSE "abandoned"]
    /\ UNCHANGED <<cmdVars, now, sessVars, schedVars, playerVars, remote, remote_config_path,
                   ftp_host, all_config_data, config_changes_made>>

\* ======================================================================
\* The player list: parsing the plys response, ordering
\* ======================================================================
\* str.lower() on the names of the model
Lower(name) ==
    CASE name = "Bob" -> "bob"
      [] OTHER -> name

\* the names of the model in the order Python compares strings (by code
\* point: upper case before lower case)
CodePointOrder == <<"", "Bob", "amy", "bob">>

CodePointRank(text) == CHOOSE i \in DOMAIN CodePointOrder : CodePointOrder[i] = text

\* the part of the sort key taken from the name: p['name'].lower()
SortName_CaseSensitive(name) == name

SortName(name) == Lower(name)

\* key=lambda p: (p['status'] != 'Online', p['name'].lower()), as a pair of
\* numbers (False sorts before True)
SortKey(p) == <<IF p.status # "Online" THEN 1 ELSE 0, CodePointRank(SortName(p.name))>>

KeyLess(a, b) == a[1] < b[1] \/ (a[1] = b[1] /\ a[2] < b[2])

\* insert p after the last element whose key is not greater (sorted() is stable)
RECURSIVE InsertSorted(_, _)
InsertSorted(sorted, p) ==
    IF sorted = <<>> THEN <<p>>
    ELSE IF KeyLess(SortKey(p), SortKey(Head(sorted)))
         THEN <<p>> \o sorted
         ELSE <<Head(sorted)>> \o InsertSorted(Tail(sorted), p)

\* sorted(players, key=...)
RECURSIVE SortedPlayers(_)
SortedPlayers(players) ==
    IF players = <<>> THEN <<>>
    ELSE InsertSorted(SortedPlayers(SubSeq(players, 1, Len(players) - 1)),
                      players[Len(players)])

\* What the regular expressions take from a line: pc_re from a line of the
\* connected section (id, name, playfield, ip), gp_re and go_re from a line
\* of a global section (id, name, faction, role).
ConnectedEntry(pid, nm, pf, ip) ==
    [pid |-> pid, nm |-> nm, fac |-> "", role |-> "", pf |-> pf, ip |-> ip]
GlobalEntry(pid, nm, fac, role) == [pid |-> pid, nm |-> nm, fac |-> fac, role |-> role]

\* The contents of the three sections of a plys response: the lines under
\* 'Players connected', under 'Global players list' and under 'Global
\* online players list'.
PlysResponse(conn, glob, online) == [connected |-> conn, global |-> glob, online |-> online]

\* A line of the response text, as the loops tell lines apart: a line that
\* holds the title of a section, an empty line, a line pc_re matches, a
\* line gp_re and go_re match.
PlysLine(kind, entry) == [kind |-> kind, entry |-> entry]

TitleLine(section) == PlysLine(section, GlobalEntry("", "", "", ""))
PlysBlank == PlysLine("blank", GlobalEntry("", "", "", ""))
ConnectedLine(e) == PlysLine("connected_line", e)
GlobalLine(e) == PlysLine("global_line", e)

\* The entries one loop handles: the lines its expression matches between
\* a line holding the section's title (in_conn / in_global / in_online set)
\* and the next empty line (flag cleared).
RECURSIVE SectionEntries(_, _, _, _, _)
SectionEntries(rsp, i, title, matched, inside) ==
    IF i > Len(rsp) THEN <<>>
    ELSE IF rsp[i].kind = title THEN SectionEntries(rsp, i + 1, title, matched, TRUE)
    ELSE IF rsp[i].kind = "blank" THEN SectionEntries(rsp, i + 1, title, matched, FALSE)
    ELSE IF inside /\ rsp[i].kind = matched
         THEN <<rsp[i].entry>> \o SectionEntries(rsp, i + 1, title, matched, inside)
         ELSE SectionEntries(rsp, i + 1, title, matched, inside)

\* the dict players with its insertion order
NoPlayers == [order |-> <<>>, by_id |-> EmptyMap]

\* first loop: players[pid] = {... 'status': 'Online' ...}
AddConnected(players, e) ==
    [order |-> IF e.pid \in DOMAIN players.by_id THEN players.order
               ELSE Append(players.order, e.pid),
     by_id |-> Put(players.by_id, e.pid,
                   [LiveOnline(e.pid, e.nm, "", "") EXCEPT !.ip = e.ip, !.playfield = e.pf])]

\* "if pid in players": faction and role of the entry go into the record
\* that is there
Backfilled_Replaced(player, e) == LiveOffline(e.pid, e.nm, e.fac, e.role)

Backfilled(player, e) == [player EXCEPT !.faction = e.fac, !.role = e.role]

\* second loop: faction and role of a player already there, else an Offline player
AddGlobal(players, e) ==
    IF e.pid \in DOMAIN players.by_id
    THEN [players EXCEPT !.by_id[e.pid] = Backfilled(@, e)]
    ELSE [order |-> Append(players.order, e.pid),
          by_id |-> Put(players.by_id, e.pid, LiveOffline(e.pid, e.nm, e.fac, e.role))]

\* third loop: faction and role only
AddOnline(players, e) ==
    IF e.pid \in DOMAIN players.by_id
    THEN [players EXCEPT !.by_id[e.pid] = Backfilled(@, e)]
    ELSE players

RECURSIVE FoldConnected(_, _, _)
FoldConnected(entries, i, players) ==
    IF i > Len(entries) THEN players
    ELSE FoldConnected(entries, i + 1, AddConnected(players, entries[i]))

RECURSIVE FoldGlobal(_, _, _)
FoldGlobal(entries, i, players) ==
    IF i > Len(entries) THEN players
    ELSE FoldGlobal(entries, i + 1, AddGlobal(players, entries[i]))

RECURSIVE FoldOnline(_, _, _)
FoldOnline(entries, i, players) ==
    IF i > Len(entries) THEN players
    ELSE FoldOnline(entries, i + 1, AddOnline(players, entries[i]))

\* players.values()
ValuesOf(players) == [i \in DOMAIN players.order |-> players.by_id[players.order[i]]]

\* get_player_list_from_plys on the response text rsp: three loops over
\* all of its lines, then the sort
GetPlayerListFromPlys(rsp) ==
    SortedPlayers(ValuesOf(
        FoldOnline(SectionEntries(rsp, 1, "online_title", "global_line", FALSE), 1,
            FoldGlobal(SectionEntries(rsp, 1, "global_title", "global_line", FALSE), 1,
                FoldConnected(SectionEntries(rsp, 1, "connected_title", "connected_line", FALSE),
                              1, NoPlayers)))))

\* live_lookup = {p['id']: p for p in live_players}
LiveLookup(live_players) ==
    [id \in {live_players[i].id : i \in DOMAIN live_players} |->
        LET last == CHOOSE i \in DOMAIN live_players :
                        /\ live_players[i].id = id
                        /\ \A j \in DOMAIN live_players : live_players[j].id = id => j <= i
        IN live_players[last]]

\* The identifiers of the model in the order the dict merged_players holds
\* them.
IdOrder == <<"1", "2", "3">>

\* the list _merge_live_data_with_known_players returns
MergedPlayerList(known, live_players) ==
    LET merged == MergeKnown(known, LiveLookup(live_players))
        ids == SelectSeq(IdOrder, LAMBDA id : id \in DOMAIN merged)
    IN SortedPlayers([i \in DOMAIN ids |-> merged[ids[i]]])

\* --- inputs
\* sequences over a set, up to a length
RECURSIVE SeqsUpTo(_, _)
SeqsUpTo(S, n) ==
    IF n = 0 THEN {<<>>}
    ELSE LET shorter == SeqsUpTo(S, n - 1)
         IN shorter \cup {Append(s, x) : s \in shorter, x \in S}

ConnectedEntries ==
    {ConnectedEntry("1", "Bob", "Akua", "10.0.0.1"),
     ConnectedEntry("2", "amy", "Omicron", "10.0.0.2")}

GlobalEntries ==
    {GlobalEntry("1", "Bob", "Abc", "Player"), GlobalEntry("2", "amy", "Abc", "Admin"),
     GlobalEntry("3", "bob", "Zrx", "Player")}

PlysResponses ==
    {PlysResponse(c, g, o) : c \in SeqsUpTo(ConnectedEntries, MaxEntries),
                             g \in SeqsUpTo(GlobalEntries, MaxEntries),
                             o \in {<<>>, <<GlobalEntry("1", "Bob", "Zrx", "Admin")>>}}

\* the text of a response: its sections in some order, each a title line
\* and its lines, with or without an empty line after each section
SectionText(response, section) ==
    CASE section = "connected_title" ->
            <<TitleLine(section)>>
              \o [i \in DOMAIN response.connected |-> ConnectedLine(response.connected[i])]
      [] section = "global_title" ->
            <<TitleLine(section)>>
              \o [i \in DOMAIN response.global |-> GlobalLine(response.global[i])]
      [] OTHER ->
            <<TitleLine(section)>>
              \o [i \in DOMAIN response.online |-> GlobalLine(response.online[i])]

RECURSIVE PlysText(_, _, _)
PlysText(response, sections, separator) ==
    IF sections = <<>> THEN <<>>
    ELSE SectionText(response, Head(sections)) \o separator
           \o PlysText(response, Tail(sections), separator)

SectionOrders ==
    {<<"connected_title", "global_title", "online_title">>,
     <<"connected_title", "online_title", "global_title">>,
     <<"global_title", "connected_title", "online_title">>,
     <<"global_title", "online_title", "connected_title">>,
     <<"online_title", "connected_title", "global_title">>,
     <<"online_title", "global_title", "connected_title">>}

PlysTexts ==
    {PlysText(response, sections, separator) :
        response \in PlysResponses, sections \in SectionOrders,
        separator \in {<<>>, <<PlysBlank>>}}

GentsLines ==
    {PlayfieldLine("Akua"), BracketHeader("Akua", "Moon"), GentsBlank,
     EntityLine("1001", "BA", "Zrx", "Outpost"), EntityLine("2001", "SV", "Tal", "Scout")}

GentsOutputs == SeqsUpTo(GentsLines, MaxLines)

\* the cache of known players a poll finds
RegistryOfEarlierRun ==
    [id \in {"1", "3"} |->
        DbRow(LiveOffline(id, IF id = "1" THEN "bob" ELSE "amy", "", ""), 0, None, 0, 0)]

KnownCaches == {EmptyMap, LoadAllKnownPlayers(RegistryOfEarlierRun)}

\* a block of a config file whose opening line is '{ Item Id: 42, Name:
\* IronIngot', and the same block without its StackSize line
IronIngotBlock ==
    <<OpenLine("Item Id: 42, Name: IronIngot"), StackSizeLine(500),
      CategoryLine("Material"), CloseLine>>

IronIngotBlockNoStackSize ==
    <<OpenLine("Item Id: 42, Name: IronIngot"), CategoryLine("Material"), CloseLine>>

ConfigLines ==
    {OpenLine("IronIngot"), StackSizeLine(500), BadStackSizeLine("many"),
     CategoryLine("Material"), CloseLine}

ConfigContents ==
    SeqsUpTo(ConfigLines, MaxLines)
        \cup {IronIngotBlock, IronIngotBlockNoStackSize, ContentA, ContentB}

\* an edit of a StackSize cell: the window's data and flag, the row's item
\* and the value typed
EditInput(data, changed, data_index, new_value) ==
    [data |-> data, changed |-> changed, data_index |-> data_index, new_value |-> new_value]

EditInputs ==
    UNION { {EditInput(data, changed, i, v) :
                changed \in BOOLEAN, i \in 1..Len(data), v \in EditValues} :
            data \in {SampleConfigData, ParseConfigFile(ContentA, "a.ecf")} }

\* a fetch: the files of the configured directory, how far the connection
\* got, and the files whose RETR or decoding fails
FetchInput(files, outcome, notRetrieved) ==
    [files |-> files, outcome |-> outcome, notRetrieved |-> notRetrieved]

FetchInputs ==
    {FetchInput(files, outcome, notRetrieved) :
        files \in {InitialFilesOfServer, FilesAfterEarlierSaves},
        outcome \in {"ok", "connect_failed", "list_failed"},
        notRetrieved \in SUBSET Range(EcfFiles)}

\* --- failures and the except clauses around them
\* An except clause, by what it does with the exception it catches: whether
\* it emits a log message (or a status signal) that names the failure, and
\* whether it raises again.
ExceptClause(logs, reraises) == [logs |-> logs, reraises |-> reraises]

LogsAndReturns == ExceptClause(TRUE, FALSE)
LogsAndRaises == ExceptClause(TRUE, TRUE)
Passes == ExceptClause(FALSE, FALSE)

\* A statement of a public method (entry) that can raise (point), with the
\* except clauses that enclose it, innermost first.
FailurePoint(entry, point, clauses) ==
    [entry |-> entry, point |-> point, clauses |-> clauses]

\* the telnet session: start_monitoring's try (343-359), stop_monitoring's
\* (376-380), send_command's (391-399) under every command, and the
\* socket.timeout clause of _read_until (333-334) inside both
TransportFailures ==
    { FailurePoint("start_monitoring", "connect", <<LogsAndReturns>>),
      FailurePoint("start_monitoring", "send password", <<LogsAndReturns>>),
      FailurePoint("start_monitoring", "recv timeout", <<Passes, LogsAndReturns>>),
      FailurePoint("stop_monitoring", "send exit", <<Passes>>),
      FailurePoint("stop_monitoring", "close", <<Passes>>) }
      \cup UNION { { FailurePoint(entry, "send", <<LogsAndReturns>>),
                     FailurePoint(entry, "recv", <<LogsAndReturns>>),
                     FailurePoint(entry, "recv timeout", <<Passes, LogsAndReturns>>) } :
                   entry \in {"force_player_update", "check_scheduled_messages",
                              "load_entities", "save_server", "kick_player",
                              "ban_player", "unban_player", "send_private_message",
                              "send_global_message"} }

\* the players table: _load_all_known_players (143-172) and
\* _update_player_in_db (176-228)
RegistryFailures ==
    { FailurePoint("start_monitoring", "load players", <<LogsAndReturns>>),
      FailurePoint("start_monitoring", "write player", <<LogsAndReturns>>),
      FailurePoint("force_player_update", "write player", <<LogsAndReturns>>) }

\* the other tables: _store_player_events (932-945), _store_entities (949-964)
HistoryFailures ==
    { FailurePoint("force_player_update", "store events", <<LogsAndReturns>>),
      FailurePoint("load_entities", "store entities", <<LogsAndReturns>>) }

\* FTP: _fetch_config_from_ftp (669-693) inside load_config_file (634-642),
\* with _parse_config_file (700-743) around each RETR; _upload_config_to_ftp
\* (753-776) inside save_config_changes (649-654), with _update_config_file
\* (782-809) around the steps of each file
FtpFailures ==
    { FailurePoint("load_config_file", "connect", <<LogsAndRaises, LogsAndReturns>>),
      FailurePoint("load_config_file", "list", <<LogsAndRaises, LogsAndReturns>>),
      FailurePoint("load_config_file", "retr",
                   <<LogsAndReturns, LogsAndRaises, LogsAndReturns>>),
      FailurePoint("load_config_file", "quit", <<LogsAndRaises, LogsAndReturns>>),
      FailurePoint("save_config_changes", "connect", <<LogsAndRaises, LogsAndReturns>>),
      FailurePoint("save_config_changes", "rename",
                   <<LogsAndReturns, LogsAndRaises, LogsAndReturns>>),
      FailurePoint("save_config_changes", "stor",
                   <<LogsAndReturns, LogsAndRaises, LogsAndReturns>>),
      FailurePoint("save_config_changes", "quit", <<LogsAndRaises, LogsAndReturns>>) }

\* scheduled_messages.json: save_scheduled_messages (876-885) and
\* load_scheduled_messages (890-925)
MessageFileFailures ==
    { FailurePoint("save_scheduled_messages", "write file", <<LogsAndReturns>>),
      FailurePoint("load_scheduled_messages", "read file", <<LogsAndReturns>>),
      FailurePoint("start_monitoring", "read file", <<LogsAndReturns>>) }

FailurePoints ==
    TransportFailures \cup RegistryFailures \cup HistoryFailures \cup FtpFailures
        \cup MessageFileFailures

\* An exception travels outwards through the clauses: the first one that
\* does not raise again ends it; past the outermost clause it reaches the
\* caller of the public method.
RECURSIVE Unwind(_, _)
Unwind(clauses, logged) ==
    IF clauses = <<>>
    THEN [propagates |-> TRUE, logged |-> logged]
    ELSE IF Head(clauses).reraises
         THEN Unwind(Tail(clauses), logged \/ Head(clauses).logs)
         ELSE [propagates |-> FALSE, logged |-> logged \/ Head(clauses).logs]

\* an input handed to a parser, not parsed yet
ParserInput(fn, input) == ParseRecord(fn, input, <<>>, FALSE, <<>>)

ParserInputs ==
    {ParserInput("plys_input", rsp) : rsp \in PlysTexts}
        \cup {ParserInput("gents_input", g) : g \in GentsOutputs}
        \cup {ParserInput("config_input", c) : c \in ConfigContents}
        \cup {ParserInput("edit_input", e) : e \in EditInputs}
        \cup {ParserInput("fetch_input", f) : f \in FetchInputs}
        \cup {ParserInput("failure_input", f) : f \in FailurePoints}

\* --- the functions applied to the inputs
ApplyGetPlayerList ==
    /\ parser.fn = "plys_input"
    /\ parser' = ParseRecord("plys", parser.input, GetPlayerListFromPlys(parser.input), FALSE, <<>>)
    /\ UNCHANGED <<io, exchange, entities, now, sessVars, schedVars, playerVars, ftpVars>>

ApplyMerge ==
    /\ parser.fn = "plys"
    /\ \E known \in KnownCaches :
          parser' = ParseRecord("merge", parser.output,
                                MergedPlayerList(known, parser.output), FALSE, <<>>)
    /\ UNCHANGED <<io, exchange, entities, now, sessVars, schedVars, playerVars, ftpVars>>

\* the cache as an earlier poll of the session left it, player 3 Online
KnownAfterPoll ==
    MergeKnown(LoadAllKnownPlayers(RegistryOfEarlierRun),
               [id \in {"3"} |-> LiveOnline("3", "amy", "Abc", "Player")])

\* _merge_live_data_with_known_players called twice with one live list: the
\* lists returned, and the identifiers _update_player_in_db is called for
ApplyMergeTwice ==
    /\ parser.fn = "plys"
    /\ \E known \in KnownCaches \cup {KnownAfterPoll} :
          LET live == LiveLookup(parser.output)
              cached == MergeKnown(known, live)
          IN parser' = ParseRecord("merge_twice", parser.output,
                           [first |-> MergedPlayerList(known, parser.output),
                            second |-> MergedPlayerList(cached, parser.output),
                            writes1 |-> {id \in MergedIds(known, live) :
                                            WriteCall(known, live, id) # "none"},
                            writes2 |-> {id \in MergedIds(cached, live) :
                                            WriteCall(cached, live, id) # "none"}],
                           FALSE, <<>>)
    /\ UNCHANGED <<io, exchange, entities, now, sessVars, schedVars, playerVars, ftpVars>>

ApplyParseEntities ==
    /\ parser.fn = "gents_input"
    /\ parser' = ParseRecord("gents", parser.input, ParseEntities(parser.input), FALSE, <<>>)
    /\ UNCHANGED <<io, exchange, entities, now, sessVars, schedVars, playerVars, ftpVars>>

ApplyParseConfigFile ==
    /\ parser.fn = "config_input"
    /\ parser' = ParseRecord("config", parser.input,
                             ParseConfigFile(parser.input, "a.ecf"), FALSE, <<>>)
    /\ UNCHANGED <<io, exchange, entities, now, sessVars, schedVars, playerVars, ftpVars>>

ApplyConfigItemChanged ==
    /\ parser.fn = "edit_input"
    /\ parser' = ParseRecord("edit", parser.input,
                             ConfigItemChanged(parser.input.data, parser.input.changed,
                                               parser.input.data_index,
                                               parser.input.new_value),
                             FALSE, <<>>)
    /\ UNCHANGED <<io, exchange, entities, now, sessVars, schedVars, playerVars, ftpVars>>

ApplyFetchConfig ==
    /\ parser.fn = "fetch_input"
    /\ parser' = ParseRecord("fetch", parser.input,
                             FetchConfig(parser.input.files, parser.input.outcome,
                                         parser.input.notRetrieved),
                             FALSE, <<>>)
    /\ UNCHANGED <<io, exchange, entities, now, sessVars, schedVars, playerVars, ftpVars>>

ApplyUnwind ==
    /\ parser.fn = "failure_input"
    /\ parser' = ParseRecord("failure", parser.input,
                             Unwind(parser.input.clauses, FALSE), FALSE, <<>>)
    /\ UNCHANGED <<io, exchange, entities, now, sessVars, schedVars, playerVars, ftpVars>>

\* ======================================================================
\* Initial states
\* ======================================================================
InitSession(t) ==
    /\ now = t
    /\ socket = "none"
    /\ connected = FALSE
    /\ running = FALSE
    /\ timer_active = FALSE
    /\ message_timer_active = FALSE

InitScheduler(files) ==
    /\ scheduled_messages = <<>>
    /\ last_message_check = EmptyMap
    /\ messages_file \in files
    /\ lastTick = NoTick
    /\ awaiting = {}

InitPlayers(tables) ==
    /\ known_players = EmptyMap
    /\ db \in tables
    /\ lastPoll = [seq |-> 0, kind |-> "none", feed |-> {}, dropped |-> {},
                   absent2 |-> {}, calls |-> EmptyMap, failed |-> {}]
    /\ seen = {}

\* no save_config_changes has run yet
FtpIdle ==
    [pc |-> "idle", queue |-> <<>>, content |-> <<>>, filenames |-> {},
     conn |-> "none", log |-> EmptyMap, start |-> EmptyMap, runs |-> 0]

\* The [ftp] section of empyrion_helper.conf as Worker.__init__ reads it,
\* and a server that holds the config files in the configured directory.
InitFtp(hosts, paths, servers) ==
    /\ ftp_host \in hosts
    /\ remote_config_path \in paths
    /\ \E files \in servers :
          remote = [d \in Directories |-> IF d = remote_config_path THEN files ELSE EmptyMap]
    /\ all_config_data = <<>>
    /\ config_changes_made = FALSE
    /\ ftp = FtpIdle

\* FTP configured, config files in the login directory
\* no command was sent, no entity stored
InitCommands(parses) ==
    /\ io = NoIo
    /\ exchange = NoExchange
    /\ entities = <<>>
    /\ parser \in parses

InitFtpIdle == InitFtp({"host"}, {LoginDir}, {InitialFilesOfServer})

EmptyTable == EmptyMap

\* ======================================================================
\* The scheduler with the session it runs in
\* ======================================================================
NoFeeds == {EmptyMap}
NoDbFailure == {{}}

SchedStart == StartWorker(NoFeeds, NoDbFailure, {FALSE}, MarkersArrive)
SchedClock == AdvanceClock(MaxTime)
SchedSave == SaveScheduledMessages({TRUE})

InitSched ==
    InitSession(0) /\ InitScheduler(InitialFiles) /\ InitPlayers({EmptyTable}) /\ InitFtpIdle
        /\ InitCommands({NoParse})

NextSched ==
    \/ SchedStart
    \/ StopMonitoring
    \/ CheckScheduledMessages
    \/ SchedSave
    \/ LoadScheduledMessages
    \/ SchedClock

SpecSched == InitSched /\ [][NextSched]_vars

\* ======================================================================
\* The player registry with the session it is polled in
\* ======================================================================
\* player_history.db as an earlier run of the program can have left it
InitialTables ==
    { EmptyTable,
      [id \in {"1"} |-> DbRow(LiveOffline("1", "bob", "", ""), 0, None, 0, 0)] }

\* the store works during a poll cycle, or every write of the cycle fails
DbFailures == {{}, PlayerIds}

PlayersStart == StartWorker(LiveFeeds, DbFailures, BOOLEAN, MarkersArrive)
PlayersPoll  == ForcePlayerUpdate(LiveFeeds, DbFailures)

\* The session runs at one time, later than the timestamps an earlier run
\* left in the table.
InitPlayersSpec ==
    InitSession(ClockStep) /\ InitScheduler({FileAbsent}) /\ InitPlayers(InitialTables) /\ InitFtpIdle
        /\ InitCommands({NoParse})

NextPlayers ==
    \/ PlayersStart
    \/ StopMonitoring
    \/ PlayersPoll

SpecPlayers == InitPlayersSpec /\ [][NextPlayers]_vars

\* ======================================================================
\* The config editor: load, edit, save
\* ======================================================================
InitFtpSpec ==
    InitSession(0) /\ InitScheduler({FileAbsent}) /\ InitPlayers({EmptyTable})
        /\ InitFtp({"", "host"}, Directories, {InitialFilesOfServer, FilesAfterEarlierSaves})
        /\ InitCommands({NoParse})

NextFtp ==
    \/ LoadConfigFile
    \/ OnConfigItemChanged
    \/ SaveConfigChanges
    \/ UpdateConfigFile_Nlst
    \/ UpdateConfigFile_RenameOrg
    \/ UpdateConfigFile_DeleteBak
    \/ UpdateConfigFile_RenameBak
    \/ UpdateConfigFile_Stor
    \/ UpdateConfig_Quit

SpecFtp == InitFtpSpec /\ [][NextFtp]_vars

\* ======================================================================
\* The session with the commands of the window and of the worker's thread
\* ======================================================================
SessionStart == StartWorker(NoFeeds, NoDbFailure, {FALSE}, StartReads)

\* a timeout of the poll timer, between two handlers of the worker's thread
SessionPoll ==
    /\ exchange["worker"] = "idle"
    /\ timer_active
    /\ ForcePlayerUpdate(NoFeeds, NoDbFailure)

InitSessionSpec ==
    InitSession(0) /\ InitScheduler({FileAbsent}) /\ InitPlayers({EmptyTable}) /\ InitFtpIdle
        /\ InitCommands({NoParse})

NextSession ==
    \/ SessionStart
    \/ StopWorker
    \/ SessionPoll
    \/ UiCommand
    \/ LoadEntities
    \/ SaveServer
    \/ UiReads
    \/ WorkerReads

SpecSession == InitSessionSpec /\ [][NextSession]_vars

\* ======================================================================
\* The parsers and the ordering of the player list, applied to inputs
\* ======================================================================
InitParsers ==
    InitSession(0) /\ InitScheduler({FileAbsent}) /\ InitPlayers({EmptyTable}) /\ InitFtpIdle
        /\ InitCommands(ParserInputs)

NextParsers ==
    \/ ApplyGetPlayerList
    \/ ApplyMerge
    \/ ApplyMergeTwice
    \/ ApplyParseEntities
    \/ ApplyParseConfigFile
    \/ ApplyConfigItemChanged
    \/ ApplyFetchConfig
    \/ ApplyUnwind

SpecParsers == InitParsers /\ [][NextParsers]_vars

\* ======================================================================
\* Properties of the scheduler (checked under SpecSched)
\* ======================================================================
\* the interval a schedule text names, N minutes or N hours, in minutes
NamesInterval(schedule) ==
    (schedule.minute \/ schedule.hour) /\ schedule.num # NoNumber

IntervalMinutes(schedule) ==
    IF schedule.hour THEN 60 * schedule.num ELSE schedule.num

\* C1: on a check_scheduled_messages tick, every enabled slot whose text is
\* not empty (once stripped, as the code reads it) and that has no last-fired
\* time yet gets the time of the tick as its last-fired time, and the tick
\* issues no broadcast for that slot.
C1_FirstTickRecordsAndHolds ==
    [][CheckScheduledMessages =>
         \A i \in 1..Len(scheduled_messages) :
            ( /\ scheduled_messages[i].enabled
              /\ Strip(scheduled_messages[i].text) # ""
              /\ i \notin DOMAIN last_message_check )
            => ( /\ i \in DOMAIN last_message_check'
                 /\ last_message_check'[i] = now
                 /\ i \notin lastTick'.sent )]_vars

\* a slot recorded by a tick that broadcast nothing, at a time after the start
C1_Witness ==
    /\ now > 0
    /\ lastTick.sent = {}
    /\ \E i \in 1..Len(scheduled_messages) :
          /\ SlotEvaluated(scheduled_messages[i])
          /\ i \in DOMAIN last_message_check
          /\ last_message_check[i] = now

\* C2: the first tick that evaluates a slot after the slot was enabled (or
\* enabled again after being disabled or empty) or after the list was
\* reloaded never issues a broadcast for that slot.
C2_FirstTickAfterEnableHolds ==
    [][CheckScheduledMessages =>
         \A i \in awaiting : i \notin lastTick'.sent]_vars

\* C3: a slot with an interval of N minutes or hours and last-fired time L
\* is not broadcast by a tick at t with t - L < N and keeps L; it is
\* broadcast by a tick with t - L >= N, and its last-fired time is then t.
C3_IntervalGate ==
    [][CheckScheduledMessages =>
         \A i \in DOMAIN last_message_check :
            ( /\ i <= Len(scheduled_messages)
              /\ SlotEvaluated(scheduled_messages[i])
              /\ NamesInterval(scheduled_messages[i].schedule) )
            => IF now - last_message_check[i]
                    < IntervalMinutes(scheduled_messages[i].schedule)
               THEN /\ i \notin lastTick'.sent
                    /\ last_message_check'[i] = last_message_check[i]
               ELSE /\ i \in lastTick'.sent
                    /\ last_message_check'[i] = now]_vars

\* an hourly slot broadcast by the latest tick, its last-fired time renewed
C3_Witness ==
    \E i \in lastTick.sent :
        /\ i <= Len(scheduled_messages)
        /\ scheduled_messages[i].schedule.hour
        /\ i \in DOMAIN last_message_check
        /\ last_message_check[i] = now
        /\ now >= 60

\* slots whose send_global_message of the latest tick wrote nothing that
\* the server accepted: the write raised, or the session was not connected
BroadcastFailed(tick) == tick.sent \ tick.wrote

\* C33: in a tick, an enabled slot with a non-empty text that comes after a
\* slot whose broadcast failed is evaluated all the same: without a
\* last-fired time it gets one, and when its interval has elapsed
\* send_global_message is called for it and its last-fired time is the tick's.
C33_FailedBroadcastDoesNotStopTick ==
    [][CheckScheduledMessages =>
         \A i \in 1..Len(scheduled_messages) :
            ( /\ SlotEvaluated(scheduled_messages[i])
              /\ \E j \in BroadcastFailed(lastTick') : j < i )
            => /\ i \in DOMAIN last_message_check'
               /\ ( /\ i \in DOMAIN last_message_check
                    /\ NamesInterval(scheduled_messages[i].schedule)
                    /\ now - last_message_check[i]
                          >= IntervalMinutes(scheduled_messages[i].schedule) )
                  => /\ i \in lastTick'.sent
                     /\ last_message_check'[i] = now]_vars

\* a tick whose first broadcast raised on a connected session and that went
\* on to the second slot
C33_Witness ==
    /\ lastTick.sent = {1, 2}
    /\ lastTick.wrote = {}
    /\ io.op = "start"
    /\ ~connected
    /\ last_message_check[2] = now

\* C34: a tick that calls send_global_message for a slot index that an
\* earlier tick already called it for comes at least the slot's interval (as
\* the list names it at this tick) after that earlier call; no two calls for
\* one index fall into one tick.
C34_BroadcastsAnIntervalApart ==
    [][CheckScheduledMessages =>
         \A i \in DOMAIN lastTick'.before :
            /\ NamesInterval(scheduled_messages[i].schedule)
            /\ IntervalMinutes(scheduled_messages[i].schedule) > 0
            /\ now - lastTick'.before[i]
                  >= IntervalMinutes(scheduled_messages[i].schedule)]_vars

\* a slot broadcast for the second time, half an hour or more after the first
C34_Witness ==
    \E i \in DOMAIN lastTick.before :
        /\ i \in lastTick.wrote
        /\ lastTick.fired[i] = now
        /\ lastTick.before[i] > 0
        /\ now - lastTick.before[i] >= 30

\* C38: a tick that finds the session not connected writes nothing to the
\* socket, and still gives every slot whose interval has elapsed the time
\* of the tick as its last-fired time.
C38_DueSlotStampedWhenDisconnected ==
    [][(CheckScheduledMessages /\ ~connected) =>
         /\ lastTick'.wrote = {}
         /\ \A i \in DOMAIN last_message_check :
               ( /\ i <= Len(scheduled_messages)
                 /\ SlotEvaluated(scheduled_messages[i])
                 /\ NamesInterval(scheduled_messages[i].schedule)
                 /\ now - last_message_check[i]
                       >= IntervalMinutes(scheduled_messages[i].schedule) )
               => last_message_check'[i] = now]_vars

\* a tick of a running message timer that began disconnected and stamped a
\* due slot
C38_Witness ==
    /\ message_timer_active
    /\ ~lastTick.ready
    /\ lastTick.wrote = {}
    /\ \E i \in lastTick.sent :
          /\ last_message_check[i] = now
          /\ now >= 30

\* a step that reads the list from scheduled_messages.json: the Load button,
\* or start_monitoring once connected
LoadStep == LoadScheduledMessages \/ (SchedStart /\ running')

\* C32: whenever the worker's list of scheduled messages is assigned it has
\* exactly the configured number of slots, and loading a file that holds a
\* list keeps every element of it at its index: none is dropped, added or
\* moved to another index.
C32_SlotsKeepCountAndIndex ==
    [][/\ (scheduled_messages' # scheduled_messages)
             => Len(scheduled_messages') = NumSlots
       /\ (LoadStep /\ messages_file.kind = "list")
             => /\ Len(scheduled_messages') = Len(messages_file.items)
                /\ \A i \in 1..Len(messages_file.items) :
                      /\ scheduled_messages'[i].enabled = messages_file.items[i].enabled
                      /\ scheduled_messages'[i].text = messages_file.items[i].text
                      /\ scheduled_messages'[i].schedule = messages_file.items[i].schedule]_vars

\* ======================================================================
\* Properties of the player registry (checked under SpecPlayers)
\* ======================================================================
\* a step that is a poll cycle of the running session (not the first one,
\* which start_monitoring makes on the freshly loaded registry)
PollStep == lastPoll'.seq # lastPoll.seq /\ lastPoll'.kind = "poll"

\* the persisted last_seen_online / last_seen_offline of an identifier
Stamps(table, id) ==
    IF id \in DOMAIN table
    THEN <<table[id].last_seen_online, table[id].last_seen_offline>>
    ELSE <<None, None>>

\* C4: the persisted last_seen_online / last_seen_offline of a known player
\* is written only by a poll cycle in which the player's status differs
\* from its status after the cycle before; a cycle that repeats the status
\* leaves both as they were.
C4_StampsOnlyOnTransition ==
    [][PollStep =>
         \A id \in DOMAIN known_players :
            Stamps(db', id) # Stamps(db, id)
            => known_players'[id].status # known_players[id].status]_vars

\* C5: a player Online after poll k and absent from the live lists of
\* polls k+1 and k+2 is Offline with empty ip and playfield after poll k+1,
\* and polls k+1 and k+2 together make exactly one status-transition write
\* for it.  (The step is poll k+2; lastPoll is what poll k+1 left.)
C5_AbsentTwiceOneTransition ==
    [][PollStep =>
         \A id \in lastPoll.dropped :
            id \notin lastPoll'.feed
            => /\ known_players[id].status = "Offline"
               /\ known_players[id].ip = ""
               /\ known_players[id].playfield = ""
               /\ lastPoll.calls[id] + lastPoll'.calls[id] = 1]_vars

\* a player dropped by one poll and absent from the next one too
C5_Witness ==
    \E id \in lastPoll.absent2 :
        /\ known_players[id].status = "Offline"
        /\ lastPoll.calls[id] = 0

\* C6: the registry in memory holds one record for every identifier loaded
\* at session start or seen in a live list since, and no others, and a poll
\* cycle never removes a record.
C6_RegistryKeepsEveryIdentifier ==
    /\ [](/\ DOMAIN known_players = seen
          /\ \A id \in DOMAIN known_players : known_players[id].id = id)
    /\ [][PollStep => DOMAIN known_players \subseteq DOMAIN known_players']_vars

\* both players known, one of them absent from the latest live list
C6_Witness ==
    /\ lastPoll.kind = "poll"
    /\ DOMAIN known_players = PlayerIds
    /\ \E id \in PlayerIds : id \notin lastPoll.feed

\* a poll cycle, the one start_monitoring makes included
AnyPollStep == lastPoll'.seq # lastPoll.seq

\* the step wrote the row of id
RowWritten(id) == id \in DOMAIN db' /\ (id \notin DOMAIN db \/ db'[id] # db[id])

FirstSeen(table, id) == IF id \in DOMAIN table THEN table[id].first_seen ELSE None

\* C25: a registry write made for a status transition sets exactly one of
\* last_seen_online / last_seen_offline to the current time, the one of the
\* new status, and leaves the other as it was; a write made for a change of
\* name, faction or role only changes neither, and of the timestamps
\* updates last_updated alone.
C25_WriteStampsByKind ==
    [][AnyPollStep =>
         \A id \in DOMAIN known_players' :
            RowWritten(id)
            => IF lastPoll'.calls[id] = 1
               THEN IF known_players'[id].status = "Online"
                    THEN /\ db'[id].last_seen_online = now
                         /\ db'[id].last_seen_offline = Stamps(db, id)[2]
                    ELSE /\ db'[id].last_seen_offline = now
                         /\ db'[id].last_seen_online = Stamps(db, id)[1]
               ELSE /\ Stamps(db', id) = Stamps(db, id)
                    /\ db'[id].first_seen = FirstSeen(db, id)]_vars

\* the store holds the row of id with the name, faction and role of memory
StoreMatchesMemory(table, known, id) ==
    /\ id \in DOMAIN table
    /\ table[id].player_name = known[id].name
    /\ table[id].faction = known[id].faction
    /\ table[id].role = known[id].role

\* C26: when a registry write failed in a poll cycle, the next poll cycle
\* attempts the same mutation again: with the live list unchanged and the
\* store working, the store matches memory after that next poll.
C26_FailedWriteRetried ==
    [][(/\ PollStep
        /\ lastPoll.failed # {}
        /\ lastPoll'.failed = {}
        /\ lastPoll'.feed = lastPoll.feed
        /\ known_players' = known_players)
       => \A id \in lastPoll.failed : StoreMatchesMemory(db', known_players', id)]_vars

\* C37: a poll cycle entered connected whose plys command raises leaves the
\* session disconnected and merges an empty live list all the same: every
\* known player that was Online is Offline afterwards, _update_player_in_db
\* was called for it with status_changed=True, and unless that write failed
\* its row has the time of the cycle as last_seen_offline.
C37_FailedPollForcesOffline ==
    [][(PollStep /\ ~connected') =>
         /\ lastPoll'.feed = {}
         /\ \A id \in DOMAIN known_players :
               known_players[id].status = "Online"
               => /\ known_players'[id].status = "Offline"
                  /\ lastPoll'.calls[id] = 1
                  /\ id \notin lastPoll'.failed
                        => /\ id \in DOMAIN db'
                           /\ db'[id].last_seen_offline = now]_vars

\* a running session disconnected by a poll that forced a player Offline
\* and wrote the transition
C37_Witness ==
    /\ running
    /\ ~connected
    /\ lastPoll.kind = "poll"
    /\ lastPoll.feed = {}
    /\ \E id \in lastPoll.dropped :
          /\ known_players[id].status = "Offline"
          /\ lastPoll.calls[id] = 1
          /\ id \in DOMAIN db
          /\ db[id].last_seen_offline = now

\* the four timestamps of a record in memory, and of a row of the table
MemoryStamps(p) ==
    <<p.last_seen_online, p.last_seen_offline, p.first_seen, p.last_updated>>

NoStamps == <<None, None, None, None>>

\* C39: the last_seen_online, last_seen_offline, first_seen and last_updated
\* of a record in memory are those its row had when start_monitoring loaded
\* the registry, or null when the record was made from a live list; no poll
\* cycle changes them, whatever it writes to the table.
C39_MemoryStampsFixedForSession ==
    [][AnyPollStep =>
         \A id \in DOMAIN known_players' :
            IF lastPoll'.kind = "poll"
            THEN IF id \in DOMAIN known_players
                 THEN MemoryStamps(known_players'[id]) = MemoryStamps(known_players[id])
                 ELSE MemoryStamps(known_players'[id]) = NoStamps
            ELSE \/ MemoryStamps(known_players'[id]) = NoStamps
                 \/ /\ id \in DOMAIN db
                    /\ MemoryStamps(known_players'[id]) = MemoryStamps(db[id])]_vars

\* a poll has written the row of a player loaded at the start, and the row
\* of a player first seen in the session; the records in memory still hold
\* the loaded timestamps and null
C39_Witness ==
    /\ lastPoll.kind = "poll"
    /\ \E id \in DOMAIN known_players \cap DOMAIN db :
          /\ known_players[id].first_seen = 0
          /\ known_players[id].last_updated = 0
          /\ db[id].last_updated = now
    /\ \E id \in DOMAIN known_players \cap DOMAIN db :
          /\ MemoryStamps(known_players[id]) = NoStamps
          /\ db[id].first_seen = now

\* ======================================================================
\* Properties of the config editor (checked under SpecFtp)
\* ======================================================================
Last(l) == l[Len(l)]

\* every attempted step of the log succeeded
AllStepsOk(l) == l # <<>> /\ \A i \in DOMAIN l : l[i].ok

\* the step that ends a save_config_changes run: quit() after the loop
RunEnds == ftp.pc = "quit" /\ ftp'.pc = "idle"

\* C7: starting from a remote directory that holds <file> and no <file>.org,
\* a save_config_changes run in which no step fails ends with <file>.org
\* holding the original content, <file>.bak holding the pre-edit content and
\* <file> holding the uploaded content.
C7_FreshFileEndsWithThreeCopies ==
    [][(RunEnds /\ ftp'.conn = "closed"
          /\ \A g \in DOMAIN ftp.log : AllStepsOk(ftp.log[g]))
        => \A f \in DOMAIN ftp.log :
              (f \in DOMAIN ftp.start /\ Org(f) \notin DOMAIN ftp.start)
              => LET files == remote'[LoginDir]
                 IN /\ {f, Org(f), Bak(f)} \subseteq DOMAIN files
                    /\ files[Org(f)] = ftp.start[f]
                    /\ files[Bak(f)] = ftp.start[f]
                    /\ files[f] = UpdateContent(ItemsOfFile(all_config_data, f))]_vars

\* the name of the block that line i of lines is in
BlockName(lines, i) ==
    LET opens == {j \in 1..i : lines[j].kind = "open"}
    IN IF opens = {} THEN ""
       ELSE lines[CHOOSE j \in opens : \A k \in opens : k <= j].text

\* names of the items of a file whose stack size is not the one its remote
\* content gives
EditedNames(config_data, filename, lines) ==
    {item.name : item \in
        {it \in Range(ItemsOfFile(config_data, filename)) :
            \E orig \in Range(ParseConfigFile(lines, filename)) :
                orig.name = it.name /\ orig.stack_size # it.stack_size}}

OnlyStackSizeEdits(old, new, edited) ==
    /\ Len(old) = Len(new)
    /\ \A i \in DOMAIN old :
          \/ old[i] = new[i]
          \/ /\ old[i].kind = "stack" /\ new[i].kind = "stack"
             /\ old[i].indent = new[i].indent
             /\ BlockName(old, i) \in edited

\* C8: the content uploaded for a file differs from the content the file had
\* remotely before the run only in the StackSize value of blocks of edited
\* items; every other line is identical.
C8_UploadDiffersOnlyInEditedStackSizes ==
    [][(ftp.pc = "stor" /\ ftp'.pc # "stor" /\ Last(ftp'.log[Head(ftp.queue)]).ok
          /\ Head(ftp.queue) \in DOMAIN ftp.start)
        => LET f == Head(ftp.queue)
           IN OnlyStackSizeEdits(ftp.start[f], remote'[LoginDir][f],
                                 EditedNames(all_config_data, f, ftp.start[f]))]_vars

\* C9: once <file>.org exists remotely its content never changes: no step of
\* any run, failed or not, renames onto it, uploads to it or deletes it.
C9_OrgNeverChanges ==
    [][\A d \in Directories : \A f \in Range(EcfFiles) :
          Org(f) \in DOMAIN remote[d]
          => /\ Org(f) \in DOMAIN remote'[d]
             /\ remote'[d][Org(f)] = remote[d][Org(f)]]_vars

\* a run that found <file>.org in place has uploaded <file> again, and
\* <file>.org still holds the original
C9_Witness ==
    /\ ftp.pc = "idle"
    /\ \E f \in DOMAIN ftp.log :
          /\ Org(f) \in DOMAIN ftp.start
          /\ AllStepsOk(ftp.log[f]) /\ Last(ftp.log[f]).step = "stor"
          /\ remote[LoginDir][Org(f)] = ftp.start[Org(f)]

\* C29: after a run of _update_config_file on a file in which no step
\* failed, <file>.bak holds the content <file> had immediately before the
\* run, whatever <file>.bak held before.
C29_BakHoldsPreviousVersion ==
    [][(ftp.pc = "stor" /\ ftp'.pc # "stor"
          /\ AllStepsOk(ftp'.log[Head(ftp.queue)])
          /\ Head(ftp.queue) \in DOMAIN ftp.start)
        => LET f == Head(ftp.queue)
               files == remote'[LoginDir]
           IN /\ Bak(f) \in DOMAIN files
              /\ files[Bak(f)] = ftp.start[f]]_vars

\* C35: from the start of a save on, whatever step has been taken or has
\* failed, the content a file of the batch had when the save began is held
\* by <file>, <file>.bak or <file>.org on the server.
C35_OldContentSurvivesUpdate ==
    \A f \in DOMAIN ftp.log \cap DOMAIN ftp.start :
        \E name \in {f, Bak(f), Org(f)} :
            /\ name \in DOMAIN remote[LoginDir]
            /\ remote[LoginDir][name] = ftp.start[f]

\* an upload that broke off after a first part was written: <file> holds the
\* part, <file>.bak what <file> held before
C35_Witness ==
    \E f \in DOMAIN ftp.log \cap DOMAIN ftp.start :
        /\ ftp.log[f] # <<>>
        /\ Last(ftp.log[f]) = LogEntry("stor", FALSE)
        /\ f \in DOMAIN remote[LoginDir]
        /\ remote[LoginDir][f] # ftp.start[f]
        /\ Bak(f) \in DOMAIN remote[LoginDir]
        /\ remote[LoginDir][Bak(f)] = ftp.start[f]

StepsOf(l) == [i \in DOMAIN l |-> l[i].step]

\* the step sequences of _update_config_file when nothing fails
FullSequences ==
    { <<"nlst", "rename_org", "stor">>,
      <<"nlst", "rename_bak", "stor">>,
      <<"nlst", "delete_bak", "rename_bak", "stor">> }

\* C10: in a batch over several files a failed step ends the steps of its
\* own file only: when the run is over, every file of the batch has had its
\* steps attempted from the listing on, up to its own first failure, and a
\* file none of whose steps failed has had the full backup-then-upload
\* sequence.
C10_FailureStopsOnlyItsFile ==
    (ftp.pc = "idle")
    => \A f \in DOMAIN ftp.log :
          LET l == ftp.log[f]
          IN /\ l # <<>>
             /\ l[1].step = "nlst"
             /\ \A i \in 1..(Len(l) - 1) : l[i].ok
             /\ Last(l).ok => StepsOf(l) \in FullSequences

\* the first file of a batch failed a step and the second was uploaded
C10_Witness ==
    /\ ftp.pc = "idle"
    /\ DOMAIN ftp.log = {"a.ecf", "b.ecf"}
    /\ ~Last(ftp.log["a.ecf"]).ok
    /\ StepsOf(ftp.log["b.ecf"]) \in FullSequences
    /\ AllStepsOk(ftp.log["b.ecf"])
    /\ remote[LoginDir]["b.ecf"] = UpdateContent(ItemsOfFile(all_config_data, "b.ecf"))

\* ======================================================================
\* Properties of the session and its commands (checked under SpecSession)
\* ======================================================================
\* the observation is of a send_command call
IsCommand == io.op \notin {"none", "start", "stop"}

\* C11: send_command writes to the transport, and returns a server
\* response, only when the session is Ready at the call (connected, which
\* is so after a successful start_monitoring until a stop or a failure, the
\* socket then being an open connection); called in any other state it
\* writes nothing and returns 'Not connected'.
C11_CommandsOnlyWhenReady ==
    IsCommand =>
        /\ io.wrote => (io.ready /\ io.sock = "open")
        /\ io.result \in {"response", "partial"} => (io.ready /\ io.sock = "open")
        /\ ~io.ready => (~io.wrote /\ io.result = "not_connected")

\* a command was invoked after the stop had closed the socket
C11_Witness ==
    /\ io.op = "command"
    /\ ~io.ready /\ io.sock = "closed"
    /\ ~io.wrote /\ io.result = "not_connected"

\* C12: an I/O error or a read timeout during send_command leaves the
\* session Disconnected and gives the caller a failure result, never the
\* bytes read so far.
C12_ReadFailureDisconnects ==
    (IsCommand /\ io.event \in {"send_error", "recv_error", "timeout"})
        => (~io.connected /\ io.result = "error")

\* start_monitoring of a new worker connects
StartStep == socket = "none" /\ socket' = "open" /\ running'

\* C13: once the session is Disconnected no poll, command, read or stop
\* makes it Ready again: connected becomes true in start_monitoring only.
C13_NoReconnectWithoutStart ==
    [][(~connected /\ connected') => StartStep]_vars

\* the session was Ready, a failure disconnected it, and a command sent on
\* the worker's thread afterwards found it not connected
C13_Witness ==
    /\ lastPoll.kind = "start"
    /\ ~connected
    /\ socket = "open"
    /\ io.op = "saveall" /\ io.result = "not_connected"

\* C14: at most one send_command exchange is in progress on the socket at
\* any time.
C14_OneExchangeAtATime ==
    Cardinality({t \in Threads : exchange[t] # "idle"}) <= 1

\* C15: stop_monitoring stops both timers before it touches the transport
\* and closes the transport on every path, the one where sending "exit"
\* fails included.
C15_StopClosesTransport ==
    (io.op = "stop")
        => /\ ~io.timers
           /\ ~timer_active /\ ~message_timer_active
           /\ io.sock \in {"open", "unconnected"} => socket = "closed"

\* C16: no write is attempted on a socket after that socket was closed.
C16_NoWriteAfterClose ==
    ~(io.wrote /\ io.sock = "closed")

C23_ReadyOnlyAfterPrompt ==
    (io.op = "start" /\ io.result = "connected") => io.event = "prompt"

\* C24: while load_entities is fetching the entity list the poll timer is
\* paused: no timer-driven force_player_update starts between the beginning
\* and the end of the fetch.
C24_NoPollDuringEntityFetch ==
    [][(exchange["ui"] = "gents") => (~timer_active /\ ~PollStep)]_vars

\* ======================================================================
\* Properties of the config editor's connections (checked under SpecFtp)
\* ======================================================================
\* C17: every load_config_file and save_config_changes invocation that
\* opened an FTP connection has closed it when it returns, on success and on
\* every failure path.
C17_FtpConnectionClosed ==
    (ftp.pc = "idle") => ftp.conn \in {"none", "closed"}

\* ======================================================================
\* Properties of the parsers and of the ordering (checked under SpecParsers)
\* ======================================================================
NoDuplicateIds(list) ==
    \A i, j \in DOMAIN list : i # j => list[i].id # list[j].id

\* a must come before b: Online before Offline, and within one status the
\* name that is smaller once both are lower-cased
MustPrecede(a, b) ==
    \/ a.status = "Online" /\ b.status # "Online"
    \/ /\ (a.status = "Online") = (b.status = "Online")
       /\ CodePointRank(Lower(a.name)) < CodePointRank(Lower(b.name))

OnlineFirstThenName(list) ==
    \A i, j \in DOMAIN list : i < j => ~MustPrecede(list[j], list[i])

EntityRank(lines, j) == Cardinality({k \in 1..j : lines[k].kind = "entity"})

\* the last header line before line j (0: none)
HeaderBefore(lines, j) ==
    LET headers == {i \in 1..(j - 1) : lines[i].kind \in {"header", "playfield"}}
    IN IF headers = {} THEN 0 ELSE CHOOSE i \in headers : \A k \in headers : k <= i

\* C20: for a gents output in which an unindented header line "Akua [Moon]"
\* is followed by indented entity lines, the parser yields a record for each
\* of these lines, up to the next header, whose playfield is "Akua".
C20_BracketHeaderSetsPlayfield ==
    parser.fn = "gents"
        => \A j \in DOMAIN parser.input :
              LET lines == parser.input
                  h == HeaderBefore(lines, j)
              IN (/\ lines[j].kind = "entity" /\ lines[j].indented
                  /\ h # 0
                  /\ lines[h].kind = "header" /\ ~lines[h].indented)
                 => /\ EntityRank(lines, j) <= Len(parser.output)
                    /\ parser.output[EntityRank(lines, j)].playfield = lines[h].text

\* ======================================================================
\* Properties of the config parser, the edit handler and the fetch
\* (checked under SpecParsers)
\* ======================================================================
\* the closing lines of blocks in which a StackSize line stands between the
\* opening and the closing line
ClosedBlocksWithStackSize(lines) ==
    {j \in DOMAIN lines :
        /\ lines[j].kind = "close"
        /\ \E o \in 1..(j - 1) :
              /\ lines[o].kind = "open"
              /\ \A k \in (o + 1)..(j - 1) : lines[k].kind \notin {"open", "close"}
              /\ \E k \in (o + 1)..(j - 1) : lines[k].kind = "stack"}

\* C21: the block '{ Item Id: 42, Name: IronIngot' / 'StackSize: 500' /
\* 'Category: Material' / '}' parses to exactly one item with id "42", name
\* "IronIngot", stack size 500 and category "Material"; the same block
\* without StackSize yields no item, and for any content an item is emitted
\* only at the closing line of a block that held a StackSize line.
C21_BlockParsesToOneItem ==
    parser.fn = "config"
        => /\ parser.input = IronIngotBlock
                => /\ Len(parser.output) = 1
                   /\ "id" \in DOMAIN parser.output[1]
                   /\ parser.output[1].id = "42"
                   /\ parser.output[1].name = "IronIngot"
                   /\ parser.output[1].stack_size = 500
                   /\ parser.output[1].category = "Material"
           /\ parser.input = IronIngotBlockNoStackSize => parser.output = <<>>
           /\ Len(parser.output) <= Cardinality(ClosedBlocksWithStackSize(parser.input))

\* C22: an edit that sets a stack size to a value that is not positive is
\* rejected: the stored stack size keeps its value and the edit does not
\* mark the configuration as changed (the flag without which Save starts no
\* transfer).
C22_NonPositiveEditRejected ==
    (parser.fn = "edit" /\ parser.input.new_value <= 0)
        => /\ parser.output.data = parser.input.data
           /\ parser.output.changed = parser.input.changed

\* the items of a list that come from one file
ItemsFrom(items, filename) == SelectSeq(items, LAMBDA item : item.source_file = filename)

EntriesOf(rsp, kind) == {rsp[i].entry : i \in {j \in DOMAIN rsp : rsp[j].kind = kind}}

RecordsOf(list, id) == {i \in DOMAIN list : list[i].id = id}

\* C27: an identifier of the connected section is Online in the parser's
\* output with the ip and playfield of its connected line, wherever the
\* sections stand in the text; its faction and role are those of a line of
\* a global section that mentions it, and the global sections change
\* neither its status nor its ip nor its playfield.
C27_ConnectedSectionDecidesStatus ==
    parser.fn = "plys"
        => \A c \in EntriesOf(parser.input, "connected_line") :
              \E i \in RecordsOf(parser.output, c.pid) :
                 LET p == parser.output[i]
                     mentions == {g \in EntriesOf(parser.input, "global_line") : g.pid = c.pid}
                 IN /\ p.status = "Online"
                    /\ p.ip = c.ip
                    /\ p.playfield = c.pf
                    /\ mentions # {} => \E g \in mentions : p.faction = g.fac /\ p.role = g.role

\* a response whose global section stands before the connected section and
\* mentions a connected player
C27_Witness ==
    /\ parser.fn = "plys"
    /\ parser.input[1].kind = "global_title"
    /\ \E c \in EntriesOf(parser.input, "connected_line"), i \in DOMAIN parser.output :
          /\ parser.output[i].id = c.pid
          /\ parser.output[i].status = "Online"
          /\ parser.output[i].ip = c.ip
          /\ parser.output[i].faction = "Abc"

\* C28: every identifier of a line of a global section (the global players
\* list or the global online players list) that is not in the connected
\* section is in the parser's output, Offline with empty ip and playfield.
C28_GlobalOnlyPlayersAreOffline ==
    parser.fn = "plys"
        => \A g \in EntriesOf(parser.input, "global_line") :
              g.pid \notin {c.pid : c \in EntriesOf(parser.input, "connected_line")}
              => \E i \in RecordsOf(parser.output, g.pid) :
                    /\ parser.output[i].status = "Offline"
                    /\ parser.output[i].ip = ""
                    /\ parser.output[i].playfield = ""

\* C31: no statement of a public method of the worker that can fail on the
\* telnet session, the registry, the other tables, FTP or the messages file
\* lets its exception reach the caller of the method, and every such failure
\* is named in a log message before the method returns.
C31_FailuresLoggedNotPropagated ==
    parser.fn = "failure" =>
        /\ ~parser.output.propagates
        /\ parser.output.logged

\* C36: when _merge_live_data_with_known_players runs twice in a row on one
\* live list, the second run calls _update_player_in_db for no player and
\* returns the list the first run returned.
C36_MergeIdempotent ==
    parser.fn = "merge_twice" =>
        /\ parser.output.writes2 = {}
        /\ parser.output.second = parser.output.first

\* a first run that wrote a new player and forced an absent one Offline
C36_Witness ==
    /\ parser.fn = "merge_twice"
    /\ "2" \in parser.output.writes1
    /\ "3" \in parser.output.writes1
    /\ \E i \in DOMAIN parser.output.second :
          /\ parser.output.second[i].id = "3"
          /\ parser.output.second[i].status = "Offline"
    /\ \A i \in DOMAIN parser.input : parser.input[i].id # "3"

====
